---- MODULE Spec2Model ----
(***************************************************************************)
(* Devatlas: knowledge-graph ingestion (Neo4jService, import_to_neo4j)     *)
(* and the Slack entity store (SlackMonitor).                              *)
(*                                                                         *)
(* Values.  Every property value is a tuple, so that any two values can be *)
(* compared:                                                               *)
(*   a Python str   is the tuple of its characters  (<<"a","b">> is "ab"), *)
(*   Python None    is None  == <<"None">>,                                *)
(*   a Python int n is IntV(n) == <<"int", n>>,                            *)
(*   True / False   are PyTrue == <<"True">> and PyFalse == <<"False">>.   *)
(* A record (a Python dict / JSON object) is a function from the keys it   *)
(* carries to values; a key the dict lacks is outside its DOMAIN.          *)
(***************************************************************************)
EXTENDS Integers, Sequences, FiniteSets, TLC

VARIABLES
    nodes,        \* graph store: sequence of [label, props]
    edges,        \* graph store: sequence of [from, to, type, props], from/to index nodes
    constraints,  \* graph store: labels that have a uniqueness constraint on id
    call,         \* the last call a client made directly (arguments and outcome)
    pc,           \* import_to_neo4j.main: the step the run is at, or how it ended
    main_data,    \* main: the loaded input document
    args,         \* main: the parsed options [clear_db, include_all_messages]
    created,      \* main: labels whose constraint this run created successfully
    node_results, \* main: the summary import_nodes returned
    rel_results,  \* main: the summary create_relationships returned
    runs,         \* number of import runs started
    before,       \* the graph when the current run started
    prev,         \* the run before the current one, when it ran to completion
    entity_file,  \* slack_entities.json: the list under "messages"
    entity_channels, \* slack_entities.json: the list under "channels"
    monitor,      \* SlackMonitor: the user cache, and what the poller has done so far
    inflight      \* the poller thread and a request handler: where each is in its
                  \* operation on the entity file, and the data it has loaded

graphVars == <<nodes, edges, constraints>>
mainVars == <<pc, main_data, args, created, node_results, rel_results, runs, before, prev>>
slackVars == <<entity_file, entity_channels, monitor, inflight>>
vars == <<nodes, edges, constraints, call, pc, main_data, args, created, node_results,
          rel_results, runs, before, prev, entity_file, entity_channels, monitor, inflight>>

(***************************************************************************)
(* Python values                                                           *)
(***************************************************************************)
None == <<"None">>
PyTrue == <<"True">>
PyFalse == <<"False">>
IntV(n) == <<"int", n>>
EmptyStr == << >>

\* bool(v): None, "", 0 and False are falsy
Truthy(v) == v \notin {None, EmptyStr, IntV(0), PyFalse}

\* dict.get(k) with the default None
Get(d, k) == IF k \in DOMAIN d THEN d[k] ELSE None

\* dict.get(k, dflt)
GetOr(d, k, dflt) == IF k \in DOMAIN d THEN d[k] ELSE dflt

EmptyDict == [k \in {} |-> None]

(***************************************************************************)
(* Neo4jService: the graph store                                           *)
(***************************************************************************)
\* `SET x = $properties` in place of `SET x += $properties`: the map replaces
\* what was there
SetReplace(old, properties) ==
    [k \in {k \in DOMAIN properties : properties[k] # None} |-> properties[k]]

\* Cypher `SET x += $properties`: keys of the map are written, keys the map
\* lacks are left as they are, and a key whose value is null is removed.
SetPlusEq(old, properties) ==
    LET removed == {k \in DOMAIN properties : properties[k] = None}
        keys    == (DOMAIN old \cup DOMAIN properties) \ removed
    IN  [k \in keys |-> IF k \in DOMAIN properties THEN properties[k] ELSE old[k]]

\* MATCH (n:label {id: $id}); a null $id matches nothing
MatchNodes(ns, label, id) ==
    {i \in DOMAIN ns : /\ id # None
                       /\ ns[i].label = label
                       /\ "id" \in DOMAIN ns[i].props
                       /\ ns[i].props["id"] = id}

\* CREATE in place of MERGE: a new node whatever is there
CreateNodeAlways(ns, label, id) ==
    Append(ns, [label |-> label, props |-> [k \in {"id"} |-> id]])

\* MERGE (n:label {id: $id}): the matching nodes, or one new node
MergeNode(ns, label, id) ==
    IF MatchNodes(ns, label, id) # {}
    THEN ns
    ELSE Append(ns, [label |-> label, props |-> [k \in {"id"} |-> id]])

\* Neo4jService.create_node: [ok, nodes]
create_node(ns, label, properties) ==
    LET node_id == Get(properties, "id")
    IN  IF ~Truthy(node_id)
        THEN [ok |-> FALSE, nodes |-> ns]
        ELSE LET merged == MergeNode(ns, label, node_id)
                 hit    == MatchNodes(merged, label, node_id)
             IN  [ok |-> TRUE,
                  nodes |-> [i \in DOMAIN merged |->
                               IF i \in hit
                               THEN [merged[i] EXCEPT !.props = SetPlusEq(@, properties)]
                               ELSE merged[i]]]

\* the edges a -[rel_type]-> b
MatchEdges(es, a, b, rel_type) ==
    {j \in DOMAIN es : es[j].from = a /\ es[j].to = b /\ es[j].type = rel_type}

\* CREATE in place of MERGE: a new edge whatever is there
CreateEdgeAlways(es, a, b, rel_type) ==
    Append(es, [from |-> a, to |-> b, type |-> rel_type, props |-> EmptyDict])

\* MERGE (a)-[r:rel_type]->(b): the matching edges, or one new edge
MergeEdge(es, a, b, rel_type) ==
    IF MatchEdges(es, a, b, rel_type) # {}
    THEN es
    ELSE Append(es, [from |-> a, to |-> b, type |-> rel_type, props |-> EmptyDict])

\* Neo4jService.create_relationship: [ok, edges].  The constraints keep
\* (label, id) unique, so MATCH binds at most one a and one b.
create_relationship(ns, es, from_label, from_id, to_label, to_id, rel_type, properties) ==
    LET as == MatchNodes(ns, from_label, from_id)
        bs == MatchNodes(ns, to_label, to_id)
    IN  IF as = {} \/ bs = {}
        THEN [ok |-> FALSE, edges |-> es]
        ELSE LET a == CHOOSE i \in as : TRUE
                 b == CHOOSE i \in bs : TRUE
                 merged == MergeEdge(es, a, b, rel_type)
                 hit    == MatchEdges(merged, a, b, rel_type)
             IN  [ok |-> TRUE,
                  edges |-> [j \in DOMAIN merged |->
                               IF j \in hit
                               THEN [merged[j] EXCEPT !.props = SetPlusEq(@, properties)]
                               ELSE merged[j]]]

(***************************************************************************)
(* Python str operations, on tuples of characters                          *)
(***************************************************************************)
UpperCase == <<"A", "B", "C", "D", "E", "F", "G", "H", "I", "J", "K", "L", "M", "N", "O", "P", "Q", "R", "S", "T", "U", "V", "W", "X", "Y", "Z">>
LowerCase == <<"a", "b", "c", "d", "e", "f", "g", "h", "i", "j", "k", "l", "m", "n", "o", "p", "q", "r", "s", "t", "u", "v", "w", "x", "y", "z">>
Digits == <<"0", "1", "2", "3", "4", "5", "6", "7", "8", "9">>

LowerChar(c) ==
    IF \E i \in DOMAIN UpperCase : UpperCase[i] = c
    THEN LowerCase[CHOOSE i \in DOMAIN UpperCase : UpperCase[i] = c]
    ELSE c

\* str.lower()
Lower(s) == [i \in DOMAIN s |-> LowerChar(s[i])]

\* `pattern in s`
Contains(pattern, s) ==
    \E i \in 0..(Len(s) - Len(pattern)) : SubSeq(s, i + 1, i + Len(pattern)) = pattern

\* c.isdigit()
IsDigit(c) == \E i \in DOMAIN Digits : Digits[i] = c

\* s.endswith(suffix)
EndsWith(s, suffix) ==
    /\ Len(suffix) <= Len(s)
    /\ SubSeq(s, Len(s) - Len(suffix) + 1, Len(s)) = suffix

\* s.startswith(prefix)
StartsWith(s, prefix) ==
    /\ Len(prefix) <= Len(s)
    /\ SubSeq(s, 1, Len(prefix)) = prefix

\* s.replace('Z', '')
StripZ(s) == SelectSeq(s, LAMBDA c : c # "Z")

RECURSIVE DecimalStr(_)
DecimalStr(n) ==
    IF n < 10 THEN <<Digits[n + 1]>>
    ELSE DecimalStr(n \div 10) \o <<Digits[(n % 10) + 1]>>

\* f"{v}": an int is written in decimal, a str as it is
Format(v) == IF Len(v) = 2 /\ v[1] = "int" THEN DecimalStr(v[2]) ELSE v

RECURSIVE Flatten(_)
Flatten(ss) == IF ss = << >> THEN << >> ELSE Head(ss) \o Flatten(Tail(ss))

(***************************************************************************)
(* import_to_neo4j.py                                                      *)
(***************************************************************************)
NODE_TYPE_LABELS ==
    [users |-> "User", repositories |-> "Repository", pullRequests |-> "PullRequest",
     issues |-> "Issue", slackChannels |-> "Channel", slackMessages |-> "Message",
     textChunks |-> "TextChunk"]

\* the order of the top-level arrays in the input document (data.items())
CollectionNames ==
    <<"users", "repositories", "pullRequests", "issues", "slackChannels",
      "slackMessages", "textChunks", "metadata">>

JoinSuffix == <<"h", "a", "s", " ", "j", "o", "i", "n", "e", "d", " ", "t", "h", "e", " ", "c", "h", "a", "n", "n", "e", "l">>

\* msg.get("text", "").endswith("has joined the channel")
IsJoin(msg) == EndsWith(GetOr(msg, "text", EmptyStr), JoinSuffix)

\* a text that is present but null has no endswith / lower: AttributeError
TextIsNone(msg) == "text" \in DOMAIN msg /\ msg["text"] = None

FilterRaises(msgs, include_all) == ~include_all /\ \E i \in DOMAIN msgs : TextIsNone(msgs[i])

\* the join-message filter, skipped under --include-all-messages
FilterJoin(msgs, include_all) ==
    IF include_all THEN msgs ELSE SelectSeq(msgs, LAMBDA m : ~IsJoin(m))

\* data[name] for a collection the caller has tested to be present
Coll(data, name) == IF name \in DOMAIN data THEN data[name] ELSE << >>

\* results[k] = v for every k of counts
UpdateResults(results, counts) ==
    [k \in DOMAIN results \cup DOMAIN counts |->
        IF k \in DOMAIN counts THEN counts[k] ELSE results[k]]

\* the loop `for node in nodes: if neo4j.create_node(label, node): success_count += 1`
RECURSIVE ImportCollection(_, _, _, _)
ImportCollection(ns, label, recs, success_count) ==
    IF recs = << >> THEN [nodes |-> ns, count |-> success_count]
    ELSE LET r == create_node(ns, label, Head(recs))
         IN  ImportCollection(r.nodes, label, Tail(recs),
                              IF r.ok THEN success_count + 1 ELSE success_count)

\* the loop over data.items(), from collection number c on
RECURSIVE ImportFrom(_, _, _, _)
ImportFrom(st, data, include_all, c) ==
    IF c > Len(CollectionNames) \/ st.raised THEN st
    ELSE LET name == CollectionNames[c]
         IN  IF name \notin DOMAIN data \/ name \notin DOMAIN NODE_TYPE_LABELS
             THEN ImportFrom(st, data, include_all, c + 1)
             ELSE IF name = "slackMessages" /\ FilterRaises(data[name], include_all)
             THEN [st EXCEPT !.raised = TRUE]
             ELSE LET label == NODE_TYPE_LABELS[name]
                      recs  == IF name = "slackMessages"
                               THEN FilterJoin(data[name], include_all)
                               ELSE data[name]
                      r     == ImportCollection(st.nodes, label, recs, 0)
                  IN  ImportFrom([nodes |-> r.nodes,
                                  results |-> UpdateResults(st.results,
                                                            [k \in {label} |-> r.count]),
                                  raised |-> FALSE],
                                 data, include_all, c + 1)

\* import_nodes: [nodes, results, raised]
import_nodes(ns, data, include_all) ==
    ImportFrom([nodes |-> ns, results |-> EmptyDict, raised |-> FALSE], data, include_all, 1)

\* One call of neo4j.create_relationship that a loop is about to make, with
\* the results key it counts under; or the exception the loop raises there.
Req(fl, fi, tl, ti, ty, props, key) ==
    [raise |-> FALSE, from_label |-> fl, from_id |-> fi, to_label |-> tl, to_id |-> ti,
     rel_type |-> ty, properties |-> props, key |-> key]

RaiseReq == [raise |-> TRUE]

\* d["id"] raises KeyError when the record has no id
HasId(d) == "id" \in DOMAIN d

\* runs the calls in order, counting the successful ones, up to the first exception
RECURSIVE RunReqs(_, _, _, _)
RunReqs(ns, es, reqs, counts) ==
    IF reqs = << >> THEN [edges |-> es, counts |-> counts, raised |-> FALSE]
    ELSE LET q == Head(reqs)
         IN  IF q.raise THEN [edges |-> es, counts |-> counts, raised |-> TRUE]
             ELSE LET r == create_relationship(ns, es, q.from_label, q.from_id,
                                               q.to_label, q.to_id, q.rel_type,
                                               q.properties)
                  IN  RunReqs(ns, r.edges, Tail(reqs),
                              IF r.ok THEN [counts EXCEPT ![q.key] = @ + 1] ELSE counts)

\* one `if <collections present>:` section of create_relationships
Section(ns, st, present, reqs, keys) ==
    IF st.raised \/ ~present THEN st
    ELSE LET r == RunReqs(ns, st.edges, reqs, [k \in keys |-> 0])
         IN  [edges |-> r.edges,
              results |-> IF r.raised THEN st.results
                          ELSE UpdateResults(st.results, r.counts),
              raised |-> r.raised]

\* the loop with record["authorId"] in place of record.get("authorId")
AuthoredReqsStrict(recs, to_label, key) ==
    Flatten([i \in DOMAIN recs |->
        IF "authorId" \notin DOMAIN recs[i] \/ ~HasId(recs[i]) THEN <<RaiseReq>>
        ELSE IF ~Truthy(recs[i]["authorId"]) THEN << >>
        ELSE <<Req("User", recs[i]["authorId"], to_label, recs[i]["id"], "AUTHORED",
                   EmptyDict, key)>>])

\* lines 121-125, 136-140, 218-222: an AUTHORED edge per record with an authorId
AuthoredReqs(recs, to_label, key) ==
    Flatten([i \in DOMAIN recs |->
        LET author_id == Get(recs[i], "authorId")
        IN  IF ~Truthy(author_id) THEN << >>
            ELSE IF ~HasId(recs[i]) THEN <<RaiseReq>>
            ELSE <<Req("User", author_id, to_label, recs[i]["id"], "AUTHORED",
                       EmptyDict, key)>>])

\* lines 152-164: a BELONGS_TO edge per record with a repositoryId
BelongsToReqs(recs, from_label, key) ==
    Flatten([i \in DOMAIN recs |->
        LET repo_id == Get(recs[i], "repositoryId")
        IN  IF ~Truthy(repo_id) THEN << >>
            ELSE IF ~HasId(recs[i]) THEN <<RaiseReq>>
            ELSE <<Req(from_label, recs[i]["id"], "Repository", repo_id, "BELONGS_TO",
                       EmptyDict, key)>>])

\* body = pr.get("body", "") or ""; body = body.lower()
LowerBody(pr) ==
    LET body == GetOr(pr, "body", EmptyStr)
    IN  Lower(IF Truthy(body) THEN body ELSE EmptyStr)

reference_patterns(issue_number) ==
    <<<<"f", "i", "x", "e", "s", " ", "#">> \o Format(issue_number),
      <<"c", "l", "o", "s", "e", "s", " ", "#">> \o Format(issue_number),
      <<"r", "e", "s", "o", "l", "v", "e", "s", " ", "#">> \o Format(issue_number),
      <<"r", "e", "l", "a", "t", "e", "d", " ", "t", "o", " ", "#">> \o Format(issue_number),
      <<"#", "#">> \o Format(issue_number)>>

AnyPattern(patterns, text) == \E i \in DOMAIN patterns : Contains(patterns[i], text)

\* lines 178-202: REFERENCES edges from each pull request to the issues its body names
ReferencesReqs(prs, issues) ==
    Flatten([i \in DOMAIN prs |->
        Flatten([j \in DOMAIN issues |->
            LET body == LowerBody(prs[i])
                issue_number == Get(issues[j], "number")
            IN  IF ~Truthy(issue_number) THEN << >>
                ELSE IF ~AnyPattern(reference_patterns(issue_number), body) THEN << >>
                ELSE IF ~HasId(prs[i]) \/ ~HasId(issues[j]) THEN <<RaiseReq>>
                ELSE <<Req("PullRequest", prs[i]["id"], "Issue", issues[j]["id"],
                           "REFERENCES",
                           [referenceType |-> IF Contains(<<"f", "i", "x", "e", "s">>, body)
                                              THEN <<"f", "i", "x", "e", "s">> ELSE <<"r", "e", "l", "a", "t", "e", "d">>],
                           "PullRequest-REFERENCES->Issue")>>])])

\* lines 238-242: a POSTED_IN edge per message with a channelId
PostedInReqs(msgs) ==
    Flatten([i \in DOMAIN msgs |->
        LET channel_id == Get(msgs[i], "channelId")
        IN  IF ~Truthy(channel_id) THEN << >>
            ELSE IF ~HasId(msgs[i]) THEN <<RaiseReq>>
            ELSE <<Req("Message", msgs[i]["id"], "Channel", channel_id, "POSTED_IN",
                       EmptyDict, "Message-POSTED_IN->Channel")>>])

\* lines 262-271: ts_to_id[created_at.replace('Z', '')] = msg["id"], the last
\* message with a timestamp winning
TsToIdRaises(msgs) ==
    \E i \in DOMAIN msgs : Truthy(Get(msgs[i], "createdAt")) /\ ~HasId(msgs[i])

ts_to_id(msgs) ==
    LET stamped == {i \in DOMAIN msgs : Truthy(Get(msgs[i], "createdAt"))}
        keys    == {StripZ(msgs[i]["createdAt"]) : i \in stamped}
        last(k) == CHOOSE i \in stamped :
                      /\ StripZ(msgs[i]["createdAt"]) = k
                      /\ \A j \in stamped : StripZ(msgs[j]["createdAt"]) = k => j <= i
    IN  [k \in keys |-> msgs[last(k)]["id"]]

\* the loop of lines 273-281 without its test `parent_id != msg["id"]`
RepliesToReqsUnguarded(msgs) ==
    IF TsToIdRaises(msgs) THEN <<RaiseReq>>
    ELSE Flatten([i \in DOMAIN msgs |->
        LET thread_ts == Get(msgs[i], "threadTs")
            map == ts_to_id(msgs)
        IN  IF ~(Truthy(thread_ts) /\ thread_ts \in DOMAIN map) THEN << >>
            ELSE IF ~HasId(msgs[i]) THEN <<RaiseReq>>
            ELSE <<Req("Message", msgs[i]["id"], "Message", map[thread_ts],
                       "REPLIES_TO", EmptyDict, "Message-REPLIES_TO->Message")>>])

\* lines 273-281: a REPLIES_TO edge to the message found under threadTs,
\* unless that message is the reply itself
RepliesToReqs(msgs) ==
    IF TsToIdRaises(msgs) THEN <<RaiseReq>>
    ELSE Flatten([i \in DOMAIN msgs |->
        LET thread_ts == Get(msgs[i], "threadTs")
            map == ts_to_id(msgs)
        IN  IF ~(Truthy(thread_ts) /\ thread_ts \in DOMAIN map) THEN << >>
            ELSE IF ~HasId(msgs[i]) THEN <<RaiseReq>>
            ELSE IF map[thread_ts] = msgs[i]["id"] THEN << >>
            ELSE <<Req("Message", msgs[i]["id"], "Message", map[thread_ts],
                       "REPLIES_TO", EmptyDict, "Message-REPLIES_TO->Message")>>])

\* lines 304-319: number -> id of the last record with that number; the keys
\* in the order in which they were first inserted
NumberIndexRaises(recs) ==
    \E i \in DOMAIN recs : Truthy(Get(recs[i], "number")) /\ ~HasId(recs[i])

NumberKeys(recs) ==
    LET first == SelectSeq([i \in DOMAIN recs |-> i],
                           LAMBDA i : /\ Truthy(Get(recs[i], "number"))
                                      /\ \A j \in 1..(i - 1) :
                                            Get(recs[j], "number") # Get(recs[i], "number"))
    IN  [n \in DOMAIN first |-> recs[first[n]]["number"]]

NumberToId(recs, number) ==
    LET last == CHOOSE i \in DOMAIN recs :
                   /\ Get(recs[i], "number") = number
                   /\ \A j \in DOMAIN recs : Get(recs[j], "number") = number => j <= i
    IN  recs[last]["id"]

\* lines 325-343: author_login_to_prs / author_login_to_issues
LoginIndexRaises(recs) ==
    \E i \in DOMAIN recs : Truthy(Get(recs[i], "authorLogin")) /\ ~HasId(recs[i])

\* the list author_login_to_prs[login], empty when the login is not a key
IdsByLogin(recs, login) ==
    LET mine == SelectSeq([i \in DOMAIN recs |-> i],
                          LAMBDA i : /\ Truthy(Get(recs[i], "authorLogin"))
                                     /\ recs[i]["authorLogin"] = login)
    IN  [n \in DOMAIN mine |-> recs[mine[n]]["id"]]

pr_patterns(pr_number) ==
    <<<<"p", "r", " ", "#">> \o Format(pr_number),
      <<"p", "r", "#">> \o Format(pr_number),
      <<"p", "r", " ">> \o Format(pr_number),
      <<"p", "u", "l", "l", " ", "r", "e", "q", "u", "e", "s", "t", " ", "#">> \o Format(pr_number),
      <<"p", "u", "l", "l", " ", "r", "e", "q", "u", "e", "s", "t", " ">> \o Format(pr_number),
      <<"p", "u", "l", "l", "/">> \o Format(pr_number),
      <<"#">> \o Format(pr_number)>>

issue_patterns(issue_number) ==
    <<<<"i", "s", "s", "u", "e", " ", "#">> \o Format(issue_number),
      <<"i", "s", "s", "u", "e", "#">> \o Format(issue_number),
      <<"i", "s", "s", "u", "e", " ">> \o Format(issue_number),
      <<"#">> \o Format(issue_number),
      <<"i", "s", "s", "u", "e", "s", "/">> \o Format(issue_number)>>

\* lines 370-374, 402-406: the scan `for pr in data[...]: if pr["id"] == pr_id`
\* stops at the first record with that id, and raises at a record without id
ScanStop(recs, id) ==
    CHOOSE i \in DOMAIN recs :
        /\ ~HasId(recs[i]) \/ recs[i]["id"] = id
        /\ \A j \in 1..(i - 1) : HasId(recs[j]) /\ recs[j]["id"] # id

ScanRaises(recs, id) == ~HasId(recs[ScanStop(recs, id)])

ScanAuthor(recs, id) == Get(recs[ScanStop(recs, id)], "authorLogin")

\* author_login and pr_author and author_login == pr_author
is_author_match(author_login, other_author) ==
    IF ~Truthy(author_login) THEN author_login
    ELSE IF ~Truthy(other_author) THEN other_author
    ELSE IF author_login = other_author THEN PyTrue ELSE PyFalse

\* lines 355-386 and 389-418: mention edges of one message to the records
\* whose number its text names
MentionReqs(msg, text, recs, to_label, key) ==
    LET numbers == NumberKeys(recs)
        patterns(number) == IF to_label = "PullRequest" THEN pr_patterns(number)
                            ELSE issue_patterns(number)
    IN  Flatten([n \in DOMAIN numbers |->
            IF ~AnyPattern(patterns(numbers[n]), text) THEN << >>
            ELSE LET to_id == NumberToId(recs, numbers[n])
                 IN  IF ScanRaises(recs, to_id) \/ ~HasId(msg) THEN <<RaiseReq>>
                     ELSE <<Req("Message", msg["id"], to_label, to_id, "REFERENCES_GITHUB",
                                [referenceType |-> <<"m", "e", "n", "t", "i", "o", "n">>,
                                 authorMatch |-> is_author_match(Get(msg, "authorLogin"),
                                                                 ScanAuthor(recs, to_id))],
                                key)>>])

\* lines 421-441: author-context edges of one message to the records of its author
ByAuthorReqs(msg, recs, to_label, key) ==
    LET ids == IdsByLogin(recs, Get(msg, "authorLogin"))
    IN  Flatten([n \in DOMAIN ids |->
            IF ~HasId(msg) THEN <<RaiseReq>>
            ELSE <<Req("Message", msg["id"], to_label, ids[n], "REFERENCES_GITHUB_BY_AUTHOR",
                       [referenceType |-> <<"a", "u", "t", "h", "o", "r", "_", "c", "o", "n", "t", "e", "x", "t">>, authorMatch |-> PyTrue],
                       key)>>])

\* lines 346-441: the loop over the messages
ReferencesGithubReqs(msgs, prs, issues) ==
    IF \/ NumberIndexRaises(prs) \/ NumberIndexRaises(issues)
       \/ LoginIndexRaises(prs) \/ LoginIndexRaises(issues)
    THEN <<RaiseReq>>
    ELSE Flatten([i \in DOMAIN msgs |->
        IF TextIsNone(msgs[i]) THEN <<RaiseReq>>
        ELSE LET text == Lower(GetOr(msgs[i], "text", EmptyStr))
             IN  IF ~Truthy(text) THEN << >>
                 ELSE MentionReqs(msgs[i], text, prs, "PullRequest",
                                  "Message-REFERENCES_GITHUB->PullRequest")
                      \o MentionReqs(msgs[i], text, issues, "Issue",
                                     "Message-REFERENCES_GITHUB->Issue")
                      \o (IF ~Truthy(Get(msgs[i], "authorLogin")) THEN << >>
                          ELSE ByAuthorReqs(msgs[i], prs, "PullRequest",
                                            "Message-REFERENCES_GITHUB->PullRequest")
                               \o ByAuthorReqs(msgs[i], issues, "Issue",
                                               "Message-REFERENCES_GITHUB->Issue"))])

\* lines 453-467: a CHUNKED_FROM edge from each chunk to its source
ChunkedFromReqs(chunks) ==
    Flatten([i \in DOMAIN chunks |->
        LET source_id == Get(chunks[i], "sourceId")
            source_type == Get(chunks[i], "sourceType")
            to_label == IF source_type = <<"P", "u", "l", "l", "R", "e", "q", "u", "e", "s", "t">> THEN "PullRequest"
                        ELSE IF source_type = <<"I", "s", "s", "u", "e">> THEN "Issue"
                        ELSE IF source_type = <<"S", "l", "a", "c", "k", "M", "e", "s", "s", "a", "g", "e">> THEN "Message"
                        ELSE "none"
        IN  IF ~(Truthy(source_id) /\ Truthy(source_type)) \/ to_label = "none" THEN << >>
            ELSE IF ~HasId(chunks[i]) THEN <<RaiseReq>>
            ELSE <<Req("TextChunk", chunks[i]["id"], to_label, source_id, "CHUNKED_FROM",
                       EmptyDict, "TextChunk-CHUNKED_FROM->Source")>>])

\* a section over the message list: the join filter raising is the section
\* raising; reqs are the calls of the section on the filtered list
MessageSection(ns, st, data, include_all, present, reqs, keys) ==
    IF st.raised \/ ~present THEN st
    ELSE IF FilterRaises(data["slackMessages"], include_all)
    THEN [st EXCEPT !.raised = TRUE]
    ELSE Section(ns, st, TRUE, reqs, keys)

\* create_relationships: [edges, results, raised]
create_relationships(ns, es, data, include_all) ==
    LET has(name) == name \in DOMAIN data
        prs    == Coll(data, "pullRequests")
        issues == Coll(data, "issues")
        msgs   == FilterJoin(Coll(data, "slackMessages"), include_all)
        s0 == [edges |-> es, results |-> EmptyDict, raised |-> FALSE]
        s1 == Section(ns, s0, has("pullRequests") /\ has("users"),
                      AuthoredReqs(prs, "PullRequest", "User-AUTHORED->PullRequest"),
                      {"User-AUTHORED->PullRequest"})
        s2 == Section(ns, s1, has("issues") /\ has("users"),
                      AuthoredReqs(issues, "Issue", "User-AUTHORED->Issue"),
                      {"User-AUTHORED->Issue"})
        s3 == Section(ns, s2, has("repositories"),
                      BelongsToReqs(prs, "PullRequest", "PullRequest-BELONGS_TO->Repository")
                      \o BelongsToReqs(issues, "Issue", "Issue-BELONGS_TO->Repository"),
                      {"PullRequest-BELONGS_TO->Repository", "Issue-BELONGS_TO->Repository"})
        s4 == Section(ns, s3, has("pullRequests") /\ has("issues"),
                      ReferencesReqs(prs, issues), {"PullRequest-REFERENCES->Issue"})
        s5 == MessageSection(ns, s4, data, include_all,
                             has("slackMessages") /\ has("users"),
                             AuthoredReqs(msgs, "Message", "User-AUTHORED->Message"),
                             {"User-AUTHORED->Message"})
        s6 == MessageSection(ns, s5, data, include_all,
                             has("slackMessages") /\ has("slackChannels"),
                             PostedInReqs(msgs), {"Message-POSTED_IN->Channel"})
        s7 == MessageSection(ns, s6, data, include_all, has("slackMessages"),
                             RepliesToReqs(msgs), {"Message-REPLIES_TO->Message"})
        s8 == MessageSection(ns, s7, data, include_all, has("slackMessages"),
                             ReferencesGithubReqs(msgs, prs, issues),
                             {"Message-REFERENCES_GITHUB->PullRequest",
                              "Message-REFERENCES_GITHUB->Issue"})
        s9 == Section(ns, s8, has("textChunks"),
                      ChunkedFromReqs(Coll(data, "textChunks")),
                      {"TextChunk-CHUNKED_FROM->Source"})
    IN  s9

(***************************************************************************)
(* import_to_neo4j.main as a step machine.  pc is "idle" before the first  *)
(* run, the name of the next step while a run is in progress, and the way  *)
(* the run ended afterwards.                                               *)
(***************************************************************************)
Labels == {"User", "Repository", "PullRequest", "Issue", "Channel", "Message", "TextChunk"}

Ended == {"idle", "completed", "no_input", "no_connection", "clear_failed",
          "constraints_failed", "crashed"}

NoData == EmptyDict
NoArgs == [clear_db |-> FALSE, include_all_messages |-> FALSE]
NoPrev == [valid |-> FALSE]

InitMain ==
    /\ pc = "idle"
    /\ main_data = NoData
    /\ args = NoArgs
    /\ created = {}
    /\ node_results = EmptyDict
    /\ rel_results = EmptyDict
    /\ runs = 0
    /\ before = [nodes |-> << >>, edges |-> << >>]
    /\ prev = NoPrev

NoCall == [op |-> "none"]

\* SlackMonitor.__init__ and a poller that has added nothing yet
InitMonitor == [user_cache |-> {}, uuids |-> 0, adds |-> 0, written |-> {}]

\* neither thread is in an operation on the entity file
Idle == [pc |-> "idle"]
InitInflight == [poller |-> Idle, handler |-> Idle]

\* slack_entities.json as _initialize_entities_file writes it
InitSlack ==
    /\ entity_file = << >>
    /\ entity_channels = << >>
    /\ monitor = InitMonitor
    /\ inflight = InitInflight

\* an empty graph store, no run started, no direct call made
Init ==
    /\ nodes = << >>
    /\ edges = << >>
    /\ constraints = {}
    /\ call = NoCall
    /\ InitMain
    /\ InitSlack

\* lines 489-513: the input file is looked up and loaded, the connection is
\* tested, and the database is cleared if --clear-db was given.
\* outcome is what the environment does to this run: "ok", the file is
\* missing, the store is unreachable, or the clearing query fails.
StartRun(input, clear_db, outcome, MaxRuns) ==
    /\ pc \in Ended
    /\ runs < MaxRuns
    /\ runs' = runs + 1
    /\ prev' = IF pc = "completed"
               THEN [valid |-> TRUE, data |-> main_data,
                     include_all_messages |-> args.include_all_messages,
                     node_results |-> node_results, rel_results |-> rel_results]
               ELSE NoPrev
    /\ before' = [nodes |-> nodes, edges |-> edges]
    /\ args' = [clear_db |-> clear_db, include_all_messages |-> input.include_all_messages]
    /\ created' = {}
    /\ node_results' = EmptyDict
    /\ rel_results' = EmptyDict
    /\ outcome = "clear_failed" => clear_db
    /\ IF outcome = "no_input"
       THEN /\ pc' = "no_input"
            /\ main_data' = NoData
            /\ UNCHANGED <<nodes, edges>>
       ELSE /\ main_data' = input.data
            /\ IF outcome = "no_connection"
               THEN pc' = "no_connection" /\ UNCHANGED <<nodes, edges>>
               ELSE IF ~clear_db
               THEN pc' = "constraints" /\ UNCHANGED <<nodes, edges>>
               ELSE IF outcome = "clear_failed"
               THEN pc' = "clear_failed" /\ UNCHANGED <<nodes, edges>>
               ELSE \* clear_database: MATCH (n) DETACH DELETE n
                    /\ pc' = "constraints"
                    /\ nodes' = << >>
                    /\ edges' = << >>
    /\ UNCHANGED <<constraints, call, slackVars>>

\* main going on to the import whatever create_constraints returned
CreateConstraintsUnchecked(failing) ==
    /\ pc = "constraints"
    /\ constraints' = constraints \cup (Labels \ failing)
    /\ created' = Labels \ failing
    /\ pc' = "import"
    /\ UNCHANGED <<nodes, edges, call, main_data, args, node_results, rel_results, runs,
                   before, prev, slackVars>>

\* Neo4jService.create_constraints and lines 516-519: every statement is
\* run; the ones in failing raise, and one failure makes the run return
CreateConstraints(failing) ==
    /\ pc = "constraints"
    /\ constraints' = constraints \cup (Labels \ failing)
    /\ created' = Labels \ failing
    /\ pc' = IF failing = {} THEN "import" ELSE "constraints_failed"
    /\ UNCHANGED <<nodes, edges, call, main_data, args, node_results, rel_results, runs,
                   before, prev, slackVars>>

\* lines 522-523
ImportNodes ==
    /\ pc = "import"
    /\ LET r == import_nodes(nodes, main_data, args.include_all_messages)
       IN  /\ nodes' = r.nodes
           /\ node_results' = r.results
           /\ pc' = IF r.raised THEN "crashed" ELSE "relationships"
    /\ UNCHANGED <<edges, constraints, call, main_data, args, created, rel_results, runs,
                   before, prev, slackVars>>

\* lines 526-537 (the vector indexes of --create-indexes hold no graph data)
CreateRelationships ==
    /\ pc = "relationships"
    /\ LET r == create_relationships(nodes, edges, main_data, args.include_all_messages)
       IN  /\ edges' = r.edges
           /\ rel_results' = r.results
           /\ pc' = IF r.raised THEN "crashed" ELSE "completed"
    /\ UNCHANGED <<nodes, constraints, call, main_data, args, created, node_results, runs,
                   before, prev, slackVars>>

(***************************************************************************)
(* SpecImport: up to MaxRuns import runs, one after the other, each on one *)
(* of a few input documents.                                               *)
(***************************************************************************)
MaxRuns == 2
MaxConstraintFailures == 1

User1 == [id |-> <<"u", "1">>, githubLogin |-> <<"a", "l">>]
Repo1 == [id |-> <<"r", "1">>, name |-> <<"d", "v">>]
Pr7 == [id |-> <<"p", "7">>, number |-> IntV(7), body |-> <<"F", "i", "x", "e", "s", " ", "#", "3">>, authorId |-> <<"u", "1">>,
        repositoryId |-> <<"r", "1">>, authorLogin |-> <<"a", "l">>]
Issue3 == [id |-> <<"i", "3">>, number |-> IntV(3), body |-> EmptyStr, authorId |-> <<"u", "1">>,
           repositoryId |-> <<"r", "1">>, authorLogin |-> <<"a", "l">>]
Chan1 == [id |-> <<"c", "1">>, name |-> <<"g", "e", "n">>]
Msg1 == [id |-> <<"m", "1">>, slackId |-> <<"a", "l">>, channelId |-> <<"c", "1">>, text |-> <<"s", "e", "e", " ", "#", "7">>,
         threadTs |-> None, createdAt |-> <<"1", "Z">>, authorId |-> <<"u", "1">>, authorLogin |-> <<"a", "l">>]
Msg2 == [id |-> <<"m", "2">>, slackId |-> <<"U", "2">>, channelId |-> <<"c", "1">>, text |-> <<"o", "k">>,
         threadTs |-> <<"1">>, createdAt |-> <<"2", "Z">>]
Chunk1 == [id |-> <<"k", "1">>, sourceId |-> <<"p", "7">>, sourceType |-> <<"P", "u", "l", "l", "R", "e", "q", "u", "e", "s", "t">>]

\* one record of every collection
DocFull ==
    [users |-> <<User1>>, repositories |-> <<Repo1>>, pullRequests |-> <<Pr7>>,
     issues |-> <<Issue3>>, slackChannels |-> <<Chan1>>, slackMessages |-> <<Msg1, Msg2>>,
     textChunks |-> <<Chunk1>>]

\* the records of DocFull after an edit: nulls where DocFull has values, and
\* the first message no longer resolved to an author
DocEdited ==
    [users |-> <<User1>>, repositories |-> <<Repo1>>,
     pullRequests |-> <<[Pr7 EXCEPT !.body = None]>>,
     issues |-> <<Issue3>>, slackChannels |-> <<Chan1>>,
     slackMessages |-> <<[id |-> <<"m", "1">>, slackId |-> <<"U", "1">>, channelId |-> <<"c", "1">>,
                          text |-> <<"s", "e", "e", " ", "#", "7">>, threadTs |-> None, createdAt |-> <<"1", "Z">>],
                         [Msg2 EXCEPT !.threadTs = None]>>,
     textChunks |-> <<Chunk1>>]

\* an id that occurs twice, a record without id, a message that is its own
\* thread parent and two messages with one createdAt
DocDup ==
    [users |-> <<User1, [User1 EXCEPT !.githubLogin = <<"b", "o">>], [githubLogin |-> <<"z", "z">>]>>,
     slackMessages |-> <<[id |-> <<"m", "1">>, text |-> <<"h", "i">>, threadTs |-> <<"1">>,
                          createdAt |-> <<"1", "Z">>],
                         [id |-> <<"m", "3">>, text |-> <<"y", "o">>, threadTs |-> <<"1">>,
                          createdAt |-> <<"1", "Z">>]>>]

\* a document with one collection only
DocSlackOnly == [slackMessages |-> <<Msg1, Msg2>>, metadata |-> << >>]

\* a join message
DocJoin ==
    [users |-> <<User1>>, slackChannels |-> <<Chan1>>,
     slackMessages |-> <<[id |-> <<"m", "4">>, channelId |-> <<"c", "1">>, authorId |-> <<"u", "1">>,
                          text |-> <<"a", "l", " ", "h", "a", "s", " ", "j", "o", "i", "n", "e", "d", " ", "t", "h", "e", " ", "c", "h", "a", "n", "n", "e", "l">>, threadTs |-> None,
                          createdAt |-> <<"3", "Z">>],
                         Msg1>>]

\* a pull request without id
DocNoId ==
    [users |-> <<User1>>,
     pullRequests |-> <<[number |-> IntV(7), authorId |-> <<"u", "1">>], Pr7>>]

\* the empty document of process_all_nodes.main
DocEmptyLists ==
    [users |-> << >>, repositories |-> << >>, pullRequests |-> << >>, issues |-> << >>,
     slackChannels |-> << >>, slackMessages |-> << >>, textChunks |-> << >>]

ImportInputs ==
    {[data |-> d, include_all_messages |-> FALSE] :
        d \in {DocFull, DocEdited, DocDup, DocSlackOnly, DocJoin, DocNoId, DocEmptyLists}}
    \cup {[data |-> DocJoin, include_all_messages |-> TRUE]}

Outcomes == {"ok", "no_input", "no_connection", "clear_failed"}

FailingSets == {f \in SUBSET Labels : Cardinality(f) <= MaxConstraintFailures}

NextImport ==
    \/ \E input \in ImportInputs, clear_db \in BOOLEAN, outcome \in Outcomes :
          StartRun(input, clear_db, outcome, MaxRuns)
    \/ \E failing \in FailingSets : CreateConstraints(failing)
    \/ ImportNodes
    \/ CreateRelationships

SpecImport == Init /\ [][NextImport]_vars

(***************************************************************************)
(* SpecGraph: a client calls create_node and create_relationship directly, *)
(* in any order, with any of a small set of arguments.                     *)
(***************************************************************************)
MaxNodes == 2
MaxEdges == 2

GraphLabels == {"User", "Message"}

\* property maps handed to create_node: with and without an id, with the
\* name missing, null or set
GraphNodeProps ==
    {[id |-> <<"a">>], [id |-> <<"b">>]}
    \cup {[id |-> <<"a">>, name |-> n] : n \in {None, <<"x">>, <<"y">>}}
    \cup {[name |-> <<"x">>], [id |-> EmptyStr, name |-> <<"x">>]}

\* property maps handed to create_relationship
GraphEdgeProps ==
    {EmptyDict, [referenceType |-> <<"f">>], [referenceType |-> <<"r">>],
     [referenceType |-> None]}

\* arguments of create_relationship: one pair of messages under two types,
\* with and without properties, and one pair of a user and a message
GraphEdgeCalls ==
    {<<<<"Message", <<"a">>>>, <<"Message", <<"b">>>>, "REFERENCES", p>> :
        p \in GraphEdgeProps}
    \cup {<<<<"Message", <<"a">>>>, <<"Message", <<"b">>>>, "REPLIES_TO", EmptyDict>>,
          <<<<"User", <<"a">>>>, <<"Message", <<"a">>>>, "REFERENCES", EmptyDict>>}

\* properties of the node (label, id) in ns, or the empty map when it is absent
NodeProps(ns, label, id) ==
    IF MatchNodes(ns, label, id) = {} THEN EmptyDict
    ELSE ns[CHOOSE i \in MatchNodes(ns, label, id) : TRUE].props

\* edges from node (fl, fi) to node (tl, ti) of type ty
EdgesBetween(ns, es, fl, fi, tl, ti, ty) ==
    {j \in DOMAIN es : /\ es[j].from \in MatchNodes(ns, fl, fi)
                       /\ es[j].to \in MatchNodes(ns, tl, ti)
                       /\ es[j].type = ty}

CreateNode(label, properties) ==
    LET r == create_node(nodes, label, properties)
    IN  /\ Len(r.nodes) <= MaxNodes
        /\ nodes' = r.nodes
        /\ call' = [op |-> "create_node", label |-> label, properties |-> properties,
                    ok |-> r.ok,
                    existed |-> MatchNodes(nodes, label, Get(properties, "id")) # {},
                    before |-> NodeProps(nodes, label, Get(properties, "id"))]
        /\ UNCHANGED <<edges, constraints, mainVars, slackVars>>

CreateRelationship(from, to, rel_type, properties) ==
    LET r == create_relationship(nodes, edges, from[1], from[2], to[1], to[2],
                                 rel_type, properties)
        old == EdgesBetween(nodes, edges, from[1], from[2], to[1], to[2], rel_type)
    IN  /\ Len(r.edges) <= MaxEdges
        /\ edges' = r.edges
        /\ call' = [op |-> "create_relationship", from |-> from, to |-> to,
                    type |-> rel_type, properties |-> properties, ok |-> r.ok,
                    existed |-> old # {},
                    before |-> IF old = {} THEN EmptyDict
                               ELSE edges[CHOOSE j \in old : TRUE].props]
        /\ UNCHANGED <<nodes, constraints, mainVars, slackVars>>

NextGraph ==
    \/ \E label \in GraphLabels, properties \in GraphNodeProps :
          CreateNode(label, properties)
    \/ \E c \in GraphEdgeCalls : CreateRelationship(c[1], c[2], c[3], c[4])

SpecGraph == Init /\ [][NextGraph]_vars

(***************************************************************************)
(* SpecLink: one import run, from an empty graph, on a document of up to   *)
(* MaxLinkMsgs messages with every combination of id, createdAt and        *)
(* threadTs.                                                               *)
(***************************************************************************)
MaxLinkMsgs == 2

LinkMsgs ==
    {[id |-> i, text |-> <<"h", "i">>, createdAt |-> c, threadTs |-> t] :
        i \in {<<"m", "1">>, <<"m", "2">>},
        c \in {<<"1", "Z">>, <<"1">>, <<"2", "Z">>},
        t \in {None, <<"1">>, <<"1", "Z">>, <<"2">>}}

SeqsUpTo(set, n) == UNION {[1..k -> set] : k \in 1..n}

LinkInputs ==
    {[data |-> [slackMessages |-> ms], include_all_messages |-> FALSE] :
        ms \in SeqsUpTo(LinkMsgs, MaxLinkMsgs)}

NextLink ==
    \/ \E input \in LinkInputs : StartRun(input, FALSE, "ok", 1)
    \/ CreateConstraints({})
    \/ ImportNodes
    \/ CreateRelationships

SpecLink == Init /\ [][NextLink]_vars

(***************************************************************************)
(* slack_monitor.py: the entity store and get_entity_message_data          *)
(***************************************************************************)
\* code points in ascending order
Chars == <<".">> \o Digits \o UpperCase \o LowerCase
Ord(c) == CHOOSE i \in DOMAIN Chars : Chars[i] = c

\* s < t on str
LessStr(s, t) ==
    \E i \in 1..Len(t) :
        /\ i <= Len(s) + 1
        /\ SubSeq(s, 1, i - 1) = SubSeq(t, 1, i - 1)
        /\ (i = Len(s) + 1 \/ Ord(s[i]) < Ord(t[i]))

\* sorted(seq, key=...) with rank[i] the position of the key of seq[i] in
\* the order of the keys: ascending, elements of equal key in their order
StableSort(seq, rank) ==
    LET pos(i) == 1 + Cardinality({j \in DOMAIN seq :
                        rank[j] < rank[i] \/ (j < i /\ rank[j] = rank[i])})
    IN  [p \in 1..Len(seq) |-> seq[CHOOSE i \in DOMAIN seq : pos(i) = p]]

\* for each string of strs, the number of strings of strs below it
StrRank(strs) ==
    [i \in DOMAIN strs |-> Cardinality({strs[j] : j \in {j \in DOMAIN strs : LessStr(strs[j], strs[i])}})]

\* the keys of a dict filled in the order of ks: each once, in first-seen order
KeysInOrder(ks) ==
    LET first == {i \in DOMAIN ks : \A j \in 1..(i - 1) : ks[j] # ks[i]}
    IN  [n \in 1..Cardinality(first) |->
            ks[CHOOSE i \in first : Cardinality({j \in first : j < i}) = n - 1]]

\* the list a dict of lists holds under k, ks[i] being the key seq[i] was
\* appended under
Group(seq, ks, k) ==
    LET at == {i \in DOMAIN seq : ks[i] = k}
    IN  [n \in 1..Cardinality(at) |->
            seq[CHOOSE i \in at : Cardinality({j \in at : j < i}) = n - 1]]

\* a content key that leaves the text out
ContentKeyNoText(message) ==
    <<GetOr(message, "channelId", EmptyStr), GetOr(message, "createdAt", EmptyStr)>>

\* lines 288-292
content_key(message) ==
    <<GetOr(message, "text", EmptyStr), GetOr(message, "channelId", EmptyStr),
      GetOr(message, "createdAt", EmptyStr)>>

\* the sort key the other way round
SlackRankReversed(m) == IF StartsWith(GetOr(m, "slackId", EmptyStr), <<"U">>) THEN 0 ELSE 1

\* line 308: the sort key, 1 for a slackId that starts with "U"
slack_rank(m) == IF StartsWith(GetOr(m, "slackId", EmptyStr), <<"U">>) THEN 1 ELSE 0

\* lines 278-311: group by content key, keep the first of each group once
\* it is sorted by slack_rank
unique_messages(messages) ==
    LET ks   == [i \in DOMAIN messages |-> content_key(messages[i])]
        keys == KeysInOrder(ks)
    IN  [n \in DOMAIN keys |->
            LET group == Group(messages, ks, keys[n])
            IN  StableSort(group, [i \in DOMAIN group |-> slack_rank(group[i])])[1]]

\* line 323
thread_key(message) ==
    IF Truthy(Get(message, "threadTs")) THEN Get(message, "threadTs")
    ELSE Get(message, "createdAt")

\* the thread groups put one after another from the last met to the first
SortedLastThreadFirst(unique) ==
    LET ks   == [i \in DOMAIN unique |-> thread_key(unique[i])]
        keys == KeysInOrder(ks)
    IN  Flatten([n \in DOMAIN keys |->
            LET group == Group(unique, ks, keys[Len(keys) + 1 - n])
            IN  StableSort(group, StrRank([i \in DOMAIN group |->
                                      GetOr(group[i], "createdAt", EmptyStr)]))])

\* lines 320-342: group by thread key, sort each group by createdAt, and
\* put the groups one after another in the order of their keys
sorted_messages(unique) ==
    LET ks   == [i \in DOMAIN unique |-> thread_key(unique[i])]
        keys == KeysInOrder(ks)
        sorted_thread_keys == StableSort(keys, StrRank(keys))
    IN  Flatten([n \in DOMAIN sorted_thread_keys |->
            LET group == Group(unique, ks, sorted_thread_keys[n])
            IN  StableSort(group, StrRank([i \in DOMAIN group |->
                                      GetOr(group[i], "createdAt", EmptyStr)]))])

\* get_entity_message_data: the stored list is deduplicated and sorted, the
\* file is rewritten when that changed it, and the list is returned
GetEntityMessageData ==
    LET unique == unique_messages(entity_file)
        sorted == sorted_messages(unique)
    IN  /\ call' = [op |-> "get_entity_message_data", loaded |-> entity_file,
                    returned |-> sorted]
        /\ entity_file' = IF Len(unique) < Len(entity_file) \/ sorted # unique
                          THEN sorted ELSE entity_file
        /\ UNCHANGED <<graphVars, mainVars, entity_channels, monitor, inflight>>

(***************************************************************************)
(* SpecDedup: the entity store holds any list of up to MaxMsgs of the      *)
(* message entities below, each under an id of its own, and                *)
(* get_entity_message_data is called on it.                                *)
(***************************************************************************)
MaxMsgs == 3

Entity(slackId, channelId, text, createdAt, threadTs) ==
    [slackId |-> slackId, channelId |-> channelId, text |-> text,
     createdAt |-> createdAt, threadTs |-> threadTs]

\* in channel C1: a message, the start of a thread, a later message and two
\* replies, each under a handle and under a raw user id; the first message
\* under a second handle and with another text; in channel C2: a message and
\* a reply
MsgPool ==
    {Entity(u, <<"C", "1">>, <<"h", "i">>, t[1], t[2]) :
        u \in {<<"a", "l">>, <<"U", "1">>},
        t \in {<<<<"1", "Z">>, None>>, <<<<"1", "Z">>, <<"1", "Z">>>>, <<<<"2", "Z">>, None>>,
               <<<<"2", "Z">>, <<"1", "Z">>>>, <<<<"3", "Z">>, <<"1", "Z">>>>}}
    \cup {Entity(<<"b", "o">>, <<"C", "1">>, <<"h", "i">>, <<"1", "Z">>, None),
          Entity(<<"a", "l">>, <<"C", "1">>, <<"y", "o">>, <<"1", "Z">>, None),
          Entity(<<"a", "l">>, <<"C", "2">>, <<"h", "i">>, <<"1", "Z">>, None),
          Entity(<<"a", "l">>, <<"C", "2">>, <<"h", "i">>, <<"2", "Z">>, <<"1", "Z">>)}

\* line 398: every stored entity gets a uuid of its own
WithIds(list) ==
    [i \in DOMAIN list |->
        [k \in DOMAIN list[i] \cup {"id"} |->
            IF k = "id" THEN <<"e", Digits[i + 1]>> ELSE list[i][k]]]

StoredLists == {WithIds(l) : l \in SeqsUpTo(MsgPool, MaxMsgs)}

InitDedup ==
    /\ nodes = << >>
    /\ edges = << >>
    /\ constraints = {}
    /\ call = NoCall
    /\ InitMain
    /\ entity_file \in StoredLists
    /\ entity_channels = << >>
    /\ monitor = InitMonitor
    /\ inflight = InitInflight

NextDedup == GetEntityMessageData

SpecDedup == InitDedup /\ [][NextDedup]_vars

(***************************************************************************)
(* SpecBatch: one import run, from an empty graph, on a document of one of *)
(* the families below.                                                     *)
(***************************************************************************)
MaxIssues == 2

\* sequences without repetition of up to n elements of set
InjSeqsUpTo(set, n) ==
    {q \in SeqsUpTo(set, n) : \A i, j \in DOMAIN q : q[i] = q[j] => i = j} \cup {<< >>}

\* bodies of a pull request: references in several spellings, to one ticket
\* and to two, no reference, no text, null
RefBodies ==
    {<<"F", "i", "x", "e", "s", " ", "#", "4", "2">>, <<"f", "i", "x", "e", "s", " ", "#", "4", "2", ".">>, <<"F", "I", "X", "E", "S", " ", "#", "4", "2">>, <<"C", "l", "o", "s", "e", "s", " ", "#", "4", "2">>, <<"s", "e", "e", " ", "#", "4", "2">>, <<"F", "i", "x", "e", "s", " ", "#", "4">>,
     <<"F", "i", "x", "e", "s", " ", "#", "4", "2", " ", "c", "l", "o", "s", "e", "s", " ", "#", "7">>, <<"c", "l", "e", "a", "n", "u", "p">>, EmptyStr, None}

\* a pull request with one of the bodies, and up to MaxIssues issues with
\* numbers of their own
RefDocs ==
    {[pullRequests |-> <<[id |-> <<"p", "1">>, number |-> IntV(9), body |-> b]>>,
      issues |-> [i \in DOMAIN ns |->
                     [id |-> <<"i", Digits[i + 1]>>, number |-> IntV(ns[i])]]] :
        b \in RefBodies, ns \in InjSeqsUpTo({4, 7, 42}, MaxIssues)}

\* a field that a record lacks
Absent == <<"absent">>

\* the record with field k set to v, or without it
With(rec, k, v) ==
    IF v = Absent THEN rec
    ELSE [f \in DOMAIN rec \cup {k} |-> IF f = k THEN v ELSE rec[f]]

\* an authorId: absent, null, of the user of the batch, of no user
AuthorIds == {Absent, None, <<"u", "1">>, <<"u", "9">>}

\* a repositoryId: absent, null, of the repository of the batch, of none
RepositoryIds == {Absent, None, <<"r", "1">>, <<"r", "9">>}

\* a pull request, an issue and a message with any authorId and
\* repositoryId, each followed by a record that resolves, and a chunk
SkipDocs ==
    {[users |-> <<[id |-> <<"u", "1">>]>>,
      repositories |-> <<[id |-> <<"r", "1">>]>>,
      pullRequests |-> <<With(With([id |-> <<"p", "1">>], "authorId", pa), "repositoryId", pr),
                         [id |-> <<"p", "2">>, authorId |-> <<"u", "1">>, repositoryId |-> <<"r", "1">>]>>,
      issues |-> <<With(With([id |-> <<"i", "1">>], "authorId", ia), "repositoryId", ir),
                   [id |-> <<"i", "2">>, authorId |-> <<"u", "1">>, repositoryId |-> <<"r", "1">>]>>,
      slackMessages |-> <<With([id |-> <<"m", "1">>, text |-> <<"h", "i">>], "authorId", ma),
                          [id |-> <<"m", "2">>, text |-> <<"y", "o">>, authorId |-> <<"u", "1">>]>>,
      textChunks |-> <<[id |-> <<"k", "1">>, sourceId |-> <<"p", "2">>,
                        sourceType |-> <<"P", "u", "l", "l", "R", "e", "q", "u", "e", "s", "t">>]>>] :
        pa \in AuthorIds, pr \in RepositoryIds, ia \in AuthorIds, ir \in RepositoryIds,
        ma \in AuthorIds}

BatchDocs == RefDocs \cup SkipDocs

BatchInputs == {[data |-> d, include_all_messages |-> FALSE] : d \in BatchDocs}

NextBatch ==
    \/ \E input \in BatchInputs : StartRun(input, FALSE, "ok", 1)
    \/ CreateConstraints({})
    \/ ImportNodes
    \/ CreateRelationships

SpecBatch == Init /\ [][NextBatch]_vars

(***************************************************************************)
(* rag.py: the router                                                      *)
(***************************************************************************)
\* lines 104-109: node_type_keywords
node_type_keywords ==
    [PullRequest |-> <<<<"p", "r">>,
                      <<"p", "u", "l", "l", " ", "r", "e", "q", "u", "e", "s", "t">>,
                      <<"c", "o", "d", "e", " ", "c", "h", "a", "n", "g", "e">>,
                      <<"m", "e", "r", "g", "e">>,
                      <<"b", "r", "a", "n", "c", "h">>,
                      <<"c", "o", "m", "m", "i", "t">>,
                      <<"g", "i", "t">>,
                      <<"r", "e", "p", "o", "s", "i", "t", "o", "r", "y">>,
                      <<"r", "e", "p", "o">>,
                      <<"d", "e", "v", "e", "l", "o", "p", "e", "r">>,
                      <<"c", "o", "n", "t", "r", "i", "b", "u", "t", "i", "o", "n">>,
                      <<"f", "e", "a", "t", "u", "r", "e">>,
                      <<"o", "a", "u", "t", "h">>,
                      <<"i", "m", "p", "l", "e", "m", "e", "n", "t", "a", "t", "i", "o", "n">>>>,
     Issue |-> <<<<"i", "s", "s", "u", "e">>,
                <<"b", "u", "g">>,
                <<"t", "i", "c", "k", "e", "t">>,
                <<"p", "r", "o", "b", "l", "e", "m">>,
                <<"t", "a", "s", "k">>,
                <<"f", "e", "a", "t", "u", "r", "e", " ", "r", "e", "q", "u", "e", "s", "t">>,
                <<"e", "n", "h", "a", "n", "c", "e", "m", "e", "n", "t">>,
                <<"e", "r", "r", "o", "r">>,
                <<"d", "e", "f", "e", "c", "t">>,
                <<"t", "r", "a", "c", "k", "e", "r">>>>,
     Message |-> <<<<"c", "h", "a", "t">>,
                  <<"s", "l", "a", "c", "k">>,
                  <<"m", "e", "s", "s", "a", "g", "e">>,
                  <<"c", "o", "n", "v", "e", "r", "s", "a", "t", "i", "o", "n">>,
                  <<"d", "i", "s", "c", "u", "s", "s", "i", "o", "n">>,
                  <<"s", "a", "i", "d">>,
                  <<"m", "e", "n", "t", "i", "o", "n", "e", "d">>,
                  <<"t", "a", "l", "k">>,
                  <<"c", "h", "a", "n", "n", "e", "l">>,
                  <<"c", "o", "m", "m", "u", "n", "i", "c", "a", "t", "i", "o", "n">>,
                  <<"d", "i", "s", "c", "u", "s", "s">>>>,
     TextChunk |-> << >>]

\* line 113
issue_terms ==
    <<<<"w", "h", "o", " ", "r", "e", "p", "o", "r", "t", "e", "d">>,
      <<"i", "s", "s", "u", "e", " ", "r", "e", "p", "o", "r", "t", "e", "r">>,
      <<"b", "u", "g", " ", "r", "e", "p", "o", "r", "t">>,
      <<"f", "i", "l", "e", "d", " ", "a", "n", " ", "i", "s", "s", "u", "e">>>>

\* line 117
pullrequest_terms ==
    <<<<"w", "h", "o", " ", "w", "r", "o", "t", "e">>,
      <<"w", "h", "o", " ", "i", "m", "p", "l", "e", "m", "e", "n", "t", "e", "d">>,
      <<"w", "h", "o", " ", "c", "o", "d", "e", "d">>,
      <<"w", "h", "o", " ", "d", "e", "v", "e", "l", "o", "p", "e", "d">>,
      <<"o", "a", "u", "t", "h">>,
      <<"i", "n", "t", "e", "g", "r", "a", "t", "i", "o", "n">>,
      <<"a", "u", "t", "h", "o", "r">>>>

\* line 121
message_terms ==
    <<<<"w", "h", "o", " ", "s", "a", "i", "d">>,
      <<"w", "h", "o", " ", "m", "e", "n", "t", "i", "o", "n", "e", "d">>,
      <<"w", "h", "o", " ", "d", "i", "s", "c", "u", "s", "s", "e", "d">>,
      <<"w", "h", "o", " ", "t", "a", "l", "k", "e", "d">>,
      <<"c", "o", "n", "v", "e", "r", "s", "a", "t", "i", "o", "n">>,
      <<"c", "h", "a", "t">>,
      <<"s", "l", "a", "c", "k">>>>

\* f"{node_type.lower()}_vector_idx"
index_name(node_type) ==
    CASE node_type = "PullRequest" -> "pullrequest_vector_idx"
      [] node_type = "Issue" -> "issue_vector_idx"
      [] node_type = "Message" -> "message_vector_idx"
      [] node_type = "TextChunk" -> "textchunk_vector_idx"

\* `node_type in available` alone
InMap(available, node_type) == \E i \in DOMAIN available : available[i][1] = node_type

\* `node_type in available and available[node_type] > 0`; available is a
\* dict, held as the sequence of its (key, value) pairs
Embedded(available, node_type) ==
    \E i \in DOMAIN available : available[i][1] = node_type /\ available[i][2] > 0

\* a score that tells only whether some keyword of node_type is in the query
ScoreCapped(available, node_type, query) ==
    IF Embedded(available, node_type)
       /\ \E k \in DOMAIN node_type_keywords[node_type] :
              Contains(node_type_keywords[node_type][k], query)
    THEN 1
    ELSE 0

\* lines 127-131: the number of keywords of node_type in the query
Score(available, node_type, query) ==
    IF Embedded(available, node_type)
    THEN Cardinality({k \in DOMAIN node_type_keywords[node_type] :
                         Contains(node_type_keywords[node_type][k], query)})
    ELSE 0

\* the order in which the fallback tries the types
FallbackOrder == <<"TextChunk", "PullRequest", "Issue", "Message">>

\* the tuple the router returns
Routed(node_label, reason) ==
    [node_label |-> node_label, index_name |-> index_name(node_label), reason |-> reason]

\* the router with the three rules tried in the reverse order
DetermineMessageFirst(query_text, available) ==
    LET query == Lower(query_text)
    IN  IF Embedded(available, "Message") /\ AnyPattern(message_terms, query)
        THEN Routed("Message", <<"Query asks about discussions or conversations">>)
        ELSE IF Embedded(available, "PullRequest") /\ AnyPattern(pullrequest_terms, query)
        THEN Routed("PullRequest", <<"Query asks about code authorship or implementation">>)
        ELSE IF Embedded(available, "Issue") /\ AnyPattern(issue_terms, query)
        THEN Routed("Issue", <<"Query specifically asks about issues">>)
        ELSE Routed("TextChunk", <<"Default fallback">>)

\* determine_best_node_type
determine_best_node_type(query_text, available) ==
    LET query == Lower(query_text)
        live  == {i \in DOMAIN available : available[i][2] > 0}
        score(i) == Score(available, available[i][1], query)
        top   == {i \in live : \A j \in live : score(j) <= score(i)}
        best  == CHOOSE i \in top : \A j \in top : i <= j
        fall  == {n \in DOMAIN FallbackOrder : Embedded(available, FallbackOrder[n])}
    IN  IF Embedded(available, "Issue") /\ AnyPattern(issue_terms, query)
        THEN Routed("Issue", <<"Query specifically asks about issues">>)
        ELSE IF Embedded(available, "PullRequest") /\ AnyPattern(pullrequest_terms, query)
        THEN Routed("PullRequest", <<"Query asks about code authorship or implementation">>)
        ELSE IF Embedded(available, "Message") /\ AnyPattern(message_terms, query)
        THEN Routed("Message", <<"Query asks about discussions or conversations">>)
        ELSE IF live # {} /\ score(best) > 0
        THEN Routed(available[best][1],
                    <<"Query contains", score(best), "keywords related to",
                      available[best][1]>>)
        ELSE IF fall # {}
        THEN LET node_type == FallbackOrder[CHOOSE n \in fall : \A m \in fall : n <= m]
             IN  Routed(node_type, <<"Fallback to", node_type, "based on available data">>)
        ELSE Routed("TextChunk", <<"Default fallback">>)

\* a client calls the router
DetermineBestNodeType(query_text, available) ==
    /\ call = NoCall
    /\ call' = [op |-> "determine_best_node_type", query_text |-> query_text,
                available |-> available,
                result |-> determine_best_node_type(query_text, available)]
    /\ UNCHANGED <<graphVars, mainVars, slackVars>>

(***************************************************************************)
(* SpecRouter: the router is called with any of the queries below, on any  *)
(* availability map that holds each type with no, or EmbeddedCount,        *)
(* embedded members, or not at all.                                        *)
(***************************************************************************)
EmbeddedCount == 2

Queries ==
    {<<"w", "h", "o", " ", "r", "e", "p", "o", "r", "t", "e", "d", " ", "t", "h", "e", " ", "o", "a", "u", "t", "h", " ", "b", "u", "g", " ", "i", "n", " ", "s", "l", "a", "c", "k">>,
     <<"w", "h", "o", " ", "w", "r", "o", "t", "e", " ", "t", "h", "e", " ", "b", "u", "g", " ", "r", "e", "p", "o", "r", "t">>,
     <<"w", "h", "o", " ", "s", "a", "i", "d", " ", "t", "h", "e", " ", "a", "u", "t", "h", "o", "r", " ", "l", "e", "f", "t">>,
     <<"w", "h", "o", " ", "w", "r", "o", "t", "e", " ", "i", "t">>,
     <<"w", "h", "o", " ", "s", "a", "i", "d", " ", "i", "t">>,
     <<"W", "h", "o", " ", "R", "e", "p", "o", "r", "t", "e", "d", " ", "i", "t">>,
     <<"W", "h", "o", " ", "W", "r", "o", "t", "e", " ", "I", "t">>,
     <<"c", "h", "a", "t", " ", "a", "b", "o", "u", "t", " ", "o", "a", "u", "t", "h">>,
     <<"m", "e", "r", "g", "e", " ", "t", "h", "e", " ", "b", "r", "a", "n", "c", "h">>,
     <<"t", "h", "e", " ", "i", "s", "s", "u", "e">>,
     <<"a", " ", "b", "u", "g", " ", "i", "n", " ", "t", "h", "e", " ", "r", "e", "p", "o">>,
     <<"s", "l", "a", "c", "k", " ", "m", "e", "s", "s", "a", "g", "e", " ", "a", "b", "o", "u", "t", " ", "a", " ", "t", "i", "c", "k", "e", "t">>,
     <<"h", "e", "l", "l", "o">>,
     <<>>}

\* lines 187-190: the map is filled in this order
NodeLabels == <<"TextChunk", "PullRequest", "Issue", "Message">>

\* the pairs of labels that have a count in cs, in the order of labels
Pairs(labels, cs) ==
    LET at == {i \in DOMAIN labels : cs[i] >= 0}
    IN  [n \in 1..Cardinality(at) |->
            LET i == CHOOSE i \in at : Cardinality({j \in at : j < i}) = n - 1
            IN  <<labels[i], cs[i]>>]

\* the maps in the order the program fills them, and in the reverse order
AvailabilityMaps ==
    {Pairs(NodeLabels, cs) : cs \in [1..4 -> {-1, 0, EmbeddedCount}]}
    \cup {Pairs(<<"Message", "Issue", "PullRequest", "TextChunk">>, cs) :
             cs \in [1..4 -> {0, EmbeddedCount}]}

NextRouter ==
    \E query_text \in Queries, available \in AvailabilityMaps :
        DetermineBestNodeType(query_text, available)

SpecRouter == Init /\ [][NextRouter]_vars

(***************************************************************************)
(* process_all_nodes.py: identity normalization                            *)
(***************************************************************************)
\* lines 36-40, as the sequence of its (key, value) pairs
GITHUB_TO_SLACK_MAPPING ==
    <<<<<<"M", "i", "c", "h", "a", "e", "l", "P", "e", "n", "g", "1", "2", "3">>, <<"m", "i", "c", "h", "a", "e", "l", "1", "2", "3", ".", "p", "e", "n", "g">>>>,
      <<<<"t", "h", "a", "n", "o", "s", "a", "w">>, <<"u", "s", "w", "a", "n", "g", "a", "n", "d", "r", "e", "w">>>>,
      <<<<"Y", "a", "t", "s", "z">>, <<"h", "y", "u", "n", "k", "i", "m", "0", "3">>>>>>

\* `key in d` for a dict held as pairs
InPairs(d, key) == \E i \in DOMAIN d : d[i][1] = key

\* d[key]
AtPairs(d, key) == d[CHOOSE i \in DOMAIN d : d[i][1] = key][2]

\* add_slack_ids_to_users
add_slack_ids_to_users(users) ==
    [i \in DOMAIN users |->
        LET github_login == Get(users[i], "githubLogin")
        IN  IF InPairs(GITHUB_TO_SLACK_MAPPING, github_login)
            THEN With(users[i], "slackId", AtPairs(GITHUB_TO_SLACK_MAPPING, github_login))
            ELSE users[i]]

\* create_slack_id_to_user_mapping: the slack ids that get an entry, and the
\* entry, which is of the last user with that slack id
SlackIdKeys(users) ==
    {Get(users[i], "slackId") : i \in {i \in DOMAIN users :
        /\ Truthy(Get(users[i], "slackId"))
        /\ Truthy(Get(users[i], "id"))
        /\ Truthy(Get(users[i], "githubLogin"))}}

create_slack_id_to_user_mapping(users) ==
    [sid \in SlackIdKeys(users) |->
        LET from == {i \in DOMAIN users :
                        /\ Get(users[i], "slackId") = sid
                        /\ Truthy(Get(users[i], "id"))
                        /\ Truthy(Get(users[i], "githubLogin"))}
            last == CHOOSE i \in from : \A j \in from : j <= i
        IN  [userId |-> users[last]["id"], githubLogin |-> users[last]["githubLogin"]]]

\* the enrichment writing authorId and authorLogin on every message, null
\* when the slack id is not mapped
EnrichEveryMessage(messages, slack_id_to_user) ==
    [i \in DOMAIN messages |->
        LET slack_id == Get(messages[i], "slackId")
            hit == Truthy(slack_id) /\ slack_id \in DOMAIN slack_id_to_user
        IN  With(With(messages[i], "authorId",
                      IF hit THEN slack_id_to_user[slack_id].userId ELSE None),
                 "authorLogin",
                 IF hit THEN slack_id_to_user[slack_id].githubLogin ELSE None)]

\* enrich_slack_messages
enrich_slack_messages(messages, slack_id_to_user) ==
    [i \in DOMAIN messages |->
        LET slack_id == Get(messages[i], "slackId")
        IN  IF Truthy(slack_id) /\ slack_id \in DOMAIN slack_id_to_user
            THEN With(With(messages[i], "authorId", slack_id_to_user[slack_id].userId),
                      "authorLogin", slack_id_to_user[slack_id].githubLogin)
            ELSE messages[i]]

\* process_all_nodes, lines 175-185 and 199-203: the users get their slack
\* ids, the reverse mapping is built from them, the messages are enriched
NormalizeIdentities(users, messages) ==
    /\ call = NoCall
    /\ call' = LET out == add_slack_ids_to_users(users)
               IN  [op |-> "process_all_nodes", users |-> users, messages |-> messages,
                    out_users |-> out,
                    out_messages |-> enrich_slack_messages(
                                         messages, create_slack_id_to_user_mapping(out))]
    /\ UNCHANGED <<graphVars, mainVars, slackVars>>

(***************************************************************************)
(* SpecIdentity: process_all_nodes on up to MaxUsers users and up to       *)
(* MaxEnrichMsgs messages.                                                 *)
(***************************************************************************)
MaxUsers == 2
MaxEnrichMsgs == 2

\* users with a login of the table, another login, a null login or none,
\* with and without a slack id of their own; one without id
UserPool ==
    {With(With([name |-> <<"n">>], "githubLogin", g), "slackId", sid) :
        g \in {Absent, None, <<"t", "h", "a", "n", "o", "s", "a", "w">>, <<"b", "o", "b">>}, sid \in {Absent, <<"b", "o", "b", ".", "s">>}}

\* messages with no slack id, a null or empty one, one of the table, one of
\* a user's own, and one that nobody has; one with an author already
MessagePool ==
    {With([text |-> <<"h", "i">>], "slackId", sid) :
        sid \in {Absent, None, EmptyStr, <<"u", "s", "w", "a", "n", "g", "a", "n", "d", "r", "e", "w">>, <<"b", "o", "b", ".", "s">>, <<"z", "e", "d">>}}
    \cup {[text |-> <<"h", "i">>, slackId |-> <<"z", "e", "d">>, authorId |-> <<"u", "0">>]}

\* the list with an id of its own on every record
Numbered(list, prefix) ==
    [i \in DOMAIN list |-> With(list[i], "id", <<prefix, Digits[i + 1]>>)]

IdentityUsers ==
    {Numbered(l, "u") : l \in SeqsUpTo(UserPool, MaxUsers)}
    \cup {<< >>, <<[githubLogin |-> <<"t", "h", "a", "n", "o", "s", "a", "w">>]>>}

IdentityMessages ==
    {Numbered(l, "m") : l \in SeqsUpTo(MessagePool, MaxEnrichMsgs)} \cup {<< >>}

NextIdentity ==
    \E users \in IdentityUsers, messages \in IdentityMessages :
        NormalizeIdentities(users, messages)

SpecIdentity == Init /\ [][NextIdentity]_vars

(***************************************************************************)
(* services/github_fetch.py: the record formatter                          *)
(***************************************************************************)
\* the owner and the name of the repository the fetcher is set to
Owner == <<"o">>
Repo == <<"r">>

\* a nested JSON object, held as its (key, value) pairs
DictV(pairs) == <<"dict", pairs>>

\* f"user-{rec.get('user', {}).get('id', '')}" if rec.get('user') else None
FormatAuthorId(rec) ==
    LET user == Get(rec, "user")
    IN  IF Truthy(user) /\ user # DictV(<< >>)
        THEN <<"u", "s", "e", "r", "-">>
             \o Format(IF InPairs(user[2], "id") THEN AtPairs(user[2], "id") ELSE EmptyStr)
        ELSE None

\* lines 160-169
format_pull_request(pr) ==
    [id |-> Format(GetOr(pr, "id", EmptyStr)),
     number |-> Get(pr, "number"),
     title |-> GetOr(pr, "title", EmptyStr),
     body |-> GetOr(pr, "body", EmptyStr),
     state |-> GetOr(pr, "state", EmptyStr),
     createdAt |-> GetOr(pr, "created_at", EmptyStr),
     authorId |-> FormatAuthorId(pr),
     repositoryId |-> <<"r", "e", "p", "o", "-">> \o Owner \o <<"-">> \o Repo]

\* lines 288-297
format_issue(issue) ==
    [id |-> <<"i", "s", "s", "u", "e", "-">> \o Format(GetOr(issue, "id", EmptyStr)),
     number |-> Get(issue, "number"),
     title |-> GetOr(issue, "title", EmptyStr),
     body |-> GetOr(issue, "body", EmptyStr),
     state |-> GetOr(issue, "state", EmptyStr),
     createdAt |-> GetOr(issue, "created_at", EmptyStr),
     authorId |-> FormatAuthorId(issue),
     repositoryId |-> <<"r", "e", "p", "o", "-">> \o Owner \o <<"-">> \o Repo]

\* lines 333-338
format_repository(repo_data) ==
    [id |-> <<"r", "e", "p", "o", "-">> \o Format(GetOr(repo_data, "id", EmptyStr)),
     name |-> GetOr(repo_data, "name", EmptyStr),
     fullName |-> GetOr(repo_data, "full_name", EmptyStr),
     description |-> GetOr(repo_data, "description", EmptyStr)]

\* fetch_all_pull_requests on the pull requests the API returns, page after page
FetchAllPullRequests(prs) ==
    /\ call = NoCall
    /\ call' = [op |-> "fetch_all_pull_requests", source |-> prs,
                formatted |-> [i \in DOMAIN prs |-> format_pull_request(prs[i])]]
    /\ UNCHANGED <<graphVars, mainVars, slackVars>>

\* fetch_all_issues: the entries that are pull requests are left out
FetchAllIssues(issues) ==
    /\ call = NoCall
    /\ call' = LET kept == SelectSeq(issues, LAMBDA issue : "pull_request" \notin DOMAIN issue)
               IN  [op |-> "fetch_all_issues", source |-> issues,
                    formatted |-> [i \in DOMAIN kept |-> format_issue(kept[i])]]
    /\ UNCHANGED <<graphVars, mainVars, slackVars>>

\* fetch_repository_info
FetchRepositoryInfo(repo_data) ==
    /\ call = NoCall
    /\ call' = [op |-> "fetch_repository_info", source |-> <<repo_data>>,
                formatted |-> <<format_repository(repo_data)>>]
    /\ UNCHANGED <<graphVars, mainVars, slackVars>>

(***************************************************************************)
(* SpecFetch: the fetcher formats up to MaxFetched records of the API.     *)
(***************************************************************************)
MaxFetched == 2

\* what the API sends as a text field: nothing, null, "", a text
ApiTexts == {Absent, None, EmptyStr, <<"F", "i", "x", "e", "s", " ", "#", "3">>}

\* the account the API names as the author
ApiUser == DictV(<< <<"id", IntV(1)>> >>)

ApiPullRequests ==
    {With(With([id |-> IntV(5), number |-> IntV(7), title |-> <<"t">>, state |-> <<"o", "p", "e", "n">>,
                created_at |-> <<"1", "Z">>], "body", b), "user", u) :
        b \in ApiTexts, u \in {Absent, None, ApiUser}}

ApiIssues ==
    {With(With([id |-> IntV(6), number |-> IntV(3), title |-> <<"t">>, state |-> <<"o", "p", "e", "n">>,
                created_at |-> <<"1", "Z">>, user |-> ApiUser], "body", b),
          "pull_request", pr) :
        b \in ApiTexts, pr \in {Absent, DictV(<< >>)}}

ApiRepositories ==
    {With([id |-> IntV(8), name |-> <<"r">>, full_name |-> <<"o", "/", "r">>], "description", d) :
        d \in ApiTexts}

NextFetch ==
    \/ \E prs \in SeqsUpTo(ApiPullRequests, MaxFetched) \cup {<< >>} :
          FetchAllPullRequests(prs)
    \/ \E issues \in SeqsUpTo(ApiIssues, MaxFetched) \cup {<< >>} : FetchAllIssues(issues)
    \/ \E repo_data \in ApiRepositories : FetchRepositoryInfo(repo_data)

SpecFetch == Init /\ [][NextFetch]_vars

(***************************************************************************)
(* SpecChan: the import of up to MaxChanMsgs messages of two channels,     *)
(* where timestamps may be shared within a channel and across channels.    *)
(***************************************************************************)
MaxChanMsgs == 2

ChanMsgs ==
    {[text |-> <<"h", "i">>, channelId |-> ch, createdAt |-> c, threadTs |-> t] :
        ch \in {<<"c", "1">>, <<"c", "2">>},
        c \in {<<"1", "Z">>, <<"2", "Z">>},
        t \in {None, <<"1">>, <<"2">>}}

\* the message at place i gets the id m<i>
ChanInputs ==
    {[data |-> [slackMessages |->
                  [i \in DOMAIN ms |-> With(ms[i], "id", <<"m">> \o DecimalStr(i))]],
      include_all_messages |-> FALSE] :
        ms \in SeqsUpTo(ChanMsgs, MaxChanMsgs)}

NextChan ==
    \/ \E input \in ChanInputs : StartRun(input, FALSE, "ok", 1)
    \/ CreateConstraints({})
    \/ ImportNodes
    \/ CreateRelationships

SpecChan == Init /\ [][NextChan]_vars

(***************************************************************************)
(* SpecMention: the import of up to MaxMentionMsgs messages next to one    *)
(* pull request and one issue, with and without author logins.             *)
(***************************************************************************)
MaxMentionMsgs == 1

\* an authorLogin: absent, null, empty, of one of two people
Logins == {Absent, None, EmptyStr, <<"a", "l">>, <<"b", "o">>}

\* texts: empty, naming no number, naming the pull request, naming both
MentionTexts == {EmptyStr, <<"h", "i">>, <<"s", "e", "e", " ", "P", "R", " ", "#", "7">>, <<"p", "u", "l", "l", "/", "7", " ", "a", "n", "d", " ", "i", "s", "s", "u", "e", " ", "3">>}

MentionDocs ==
    {[pullRequests |-> <<With([id |-> <<"p", "1">>, number |-> IntV(7)], "authorLogin", pl)>>,
      issues |-> <<With([id |-> <<"i", "1">>, number |-> IntV(3)], "authorLogin", il)>>,
      slackMessages |->
          [i \in DOMAIN ms |-> With(ms[i], "id", <<"m">> \o DecimalStr(i))]] :
        pl \in Logins \ {EmptyStr}, il \in Logins \ {EmptyStr},
        ms \in SeqsUpTo({With([text |-> t], "authorLogin", ml) :
                            t \in MentionTexts, ml \in Logins}, MaxMentionMsgs)}

MentionInputs == {[data |-> d, include_all_messages |-> FALSE] : d \in MentionDocs}

NextMention ==
    \/ \E input \in MentionInputs : StartRun(input, FALSE, "ok", 1)
    \/ CreateConstraints({})
    \/ ImportNodes
    \/ CreateRelationships

SpecMention == Init /\ [][NextMention]_vars

(***************************************************************************)
(* process_all_nodes.py and embedding_service.py: the embeddings           *)
(***************************************************************************)
\* process_all_nodes.py lines 25-33
NODE_TYPE_MAPPING ==
    [users |-> "User", repositories |-> "Repository", pullRequests |-> "PullRequest",
     issues |-> "Issue", slackChannels |-> "Channel", slackMessages |-> "Message",
     textChunks |-> "TextChunk"]

\* create_user_id_to_login_mapping: the login of the last user with the id
create_user_id_to_login_mapping(users) ==
    LET named == {i \in DOMAIN users :
                     Truthy(Get(users[i], "id")) /\ Truthy(Get(users[i], "githubLogin"))}
    IN  [user_id \in {users[i]["id"] : i \in named} |->
            users[CHOOSE i \in named :
                     /\ users[i]["id"] = user_id
                     /\ \A j \in named : users[j]["id"] = user_id => j <= i]["githubLogin"]]

\* add_github_login_to_pull_requests
add_github_login_to_pull_requests(pull_requests, user_id_to_login) ==
    [i \in DOMAIN pull_requests |->
        LET author_id == Get(pull_requests[i], "authorId")
        IN  IF Truthy(author_id) /\ author_id \in DOMAIN user_id_to_login
            THEN With(pull_requests[i], "authorLogin", user_id_to_login[author_id])
            ELSE pull_requests[i]]

\* add_github_login_to_issues
add_github_login_to_issues(issues, user_id_to_login) ==
    [i \in DOMAIN issues |->
        LET author_id == Get(issues[i], "authorId")
        IN  IF Truthy(author_id) /\ author_id \in DOMAIN user_id_to_login
            THEN With(issues[i], "authorLogin", user_id_to_login[author_id])
            ELSE issues[i]]

\* f"{v}" for a str or None
PyStr(v) == IF v = None THEN <<"N", "o", "n", "e">> ELSE v

\* " ".join(texts)
RECURSIVE JoinSpace(_)
JoinSpace(texts) ==
    IF texts = << >> THEN << >>
    ELSE IF Len(texts) = 1 THEN texts[1]
    ELSE texts[1] \o <<" ">> \o JoinSpace(Tail(texts))

\* EmbeddingService.get_text_for_embedding
get_text_for_embedding(node, node_type) ==
    IF node_type \in {"PullRequest", "Issue"}
    THEN PyStr(GetOr(node, "title", EmptyStr)) \o <<" ">> \o PyStr(GetOr(node, "body", EmptyStr))
    ELSE IF node_type = "Message" THEN GetOr(node, "text", EmptyStr)
    ELSE LET text_fields == <<"content", "text", "body", "description", "title">>
             found == SelectSeq(text_fields,
                                LAMBDA field : field \in DOMAIN node /\ Truthy(node[field]))
         IN  JoinSpace([n \in DOMAIN found |-> node[found[n]]])

\* the vector of a text, and the vector of zeros
Encode(text) == <<"encoded", text>>
ZeroVector == <<"zeros">>

\* EmbeddingService.create_embedding
create_embedding(node, node_type) ==
    LET text == get_text_for_embedding(node, node_type)
    IN  IF ~Truthy(text) \/ \A n \in DOMAIN text : text[n] = " "
        THEN ZeroVector
        ELSE Encode(text)

\* EmbeddingService.add_embedding_to_node
add_embedding_to_node(node, node_type) ==
    With(node, "embedding", create_embedding(node, node_type))

\* the collections that the first pass of process_all_nodes handles
FirstPass == {"users", "pullRequests", "issues", "slackMessages"}

\* the collections that the loop of lines 206-225 hands to the service
Embedded_collections(data) == (DOMAIN data \ FirstPass) \cap DOMAIN NODE_TYPE_MAPPING

\* process_all_nodes: the result document; service_up tells whether the
\* calls of the embedding service return or raise
process_all_nodes(data, service_up) ==
    LET users == add_slack_ids_to_users(data["users"])
        user_id_to_login == create_user_id_to_login_mapping(users)
        slack_id_to_user == create_slack_id_to_user_mapping(users)
        first == IF "users" \in DOMAIN data THEN DOMAIN data \cap FirstPass ELSE {}
    IN  [c \in first \cup (DOMAIN data \ FirstPass) |->
            IF c = "users" THEN users
            ELSE IF c = "pullRequests"
            THEN add_github_login_to_pull_requests(data[c], user_id_to_login)
            ELSE IF c = "issues" THEN add_github_login_to_issues(data[c], user_id_to_login)
            ELSE IF c = "slackMessages" THEN enrich_slack_messages(data[c], slack_id_to_user)
            ELSE IF c \in DOMAIN NODE_TYPE_MAPPING
            THEN [i \in DOMAIN data[c] |->
                     IF service_up THEN add_embedding_to_node(data[c][i], NODE_TYPE_MAPPING[c])
                     ELSE data[c][i]]
            ELSE data[c]]

\* the number of calls of add_embedding_to_node for each record of data
EmbeddingCalls(data) ==
    [c \in DOMAIN data |->
        [i \in DOMAIN data[c] |-> IF c \in Embedded_collections(data) THEN 1 ELSE 0]]

\* main, lines 257-261: the document is processed
ProcessAllNodes(data, service_up) ==
    /\ call = NoCall
    /\ call' = [op |-> "process_all_nodes(data)", data |-> data, service_up |-> service_up,
                result |-> process_all_nodes(data, service_up),
                embedding_calls |-> EmbeddingCalls(data)]
    /\ UNCHANGED <<graphVars, mainVars, slackVars>>

(***************************************************************************)
(* SpecProcess: process_all_nodes on documents with any of seven           *)
(* collections and up to MaxChunks text chunks.                            *)
(***************************************************************************)
MaxChunks == 1

\* one record list per collection; "extras" is no collection of the mapping
SampleDoc ==
    [users |-> <<[id |-> <<"u", "1">>, githubLogin |-> <<"t", "h", "a", "n", "o", "s", "a", "w">>]>>,
     repositories |-> <<[id |-> <<"r", "1">>, name |-> <<"r">>, description |-> None]>>,
     pullRequests |-> <<[id |-> <<"p", "1">>, title |-> <<"t">>, body |-> <<"b">>, authorId |-> <<"u", "1">>]>>,
     issues |-> <<[id |-> <<"i", "1">>, title |-> <<"t">>, body |-> None, authorId |-> <<"u", "9">>]>>,
     slackMessages |-> <<[id |-> <<"m", "1">>, text |-> <<"h", "i">>, slackId |-> <<"u", "s", "w", "a", "n", "g", "a", "n", "d", "r", "e", "w">>]>>,
     extras |-> <<[id |-> <<"x", "1">>]>>]

\* chunks with a text, and with a blank one
ChunkPool == {[id |-> <<"k", "1">>, content |-> <<"c">>], [id |-> <<"k", "2">>, content |-> <<" ">>]}

ProcessDocs ==
    {[c \in cs |-> SampleDoc[c]] : cs \in SUBSET DOMAIN SampleDoc}
    \cup {[c \in cs \cup {"textChunks"} |-> IF c = "textChunks" THEN chunks ELSE SampleDoc[c]] :
             cs \in SUBSET DOMAIN SampleDoc,
             chunks \in SeqsUpTo(ChunkPool, MaxChunks) \cup {<< >>}}

NextProcess ==
    \E data \in ProcessDocs, service_up \in BOOLEAN : ProcessAllNodes(data, service_up)

SpecProcess == Init /\ [][NextProcess]_vars

(***************************************************************************)
(* services/github_fetch.py: fetch_and_save_all_pr_and_issues, whose       *)
(* document the import loads                                               *)
(***************************************************************************)
\* lines 453-458: a contributor and the user data fetched for it
format_contributor(contrib, user_data) ==
    [id |-> <<"u", "s", "e", "r", "-">> \o Format(GetOr(contrib, "id", EmptyStr)),
     githubLogin |-> GetOr(contrib, "login", EmptyStr),
     name |-> GetOr(user_data, "name", EmptyStr),
     email |-> GetOr(user_data, "email", EmptyStr)]

\* lines 627-652: the records are appended unless their id is there already
AppendNew(existing, recs) ==
    existing \o SelectSeq([i \in DOMAIN recs |-> i], LAMBDA i :
                   /\ \A j \in DOMAIN existing : Get(existing[j], "id") # Get(recs[i], "id")
                   /\ \A j \in 1..(i - 1) : Get(recs[j], "id") # Get(recs[i], "id"))

\* the records at the places that AppendNew keeps
Picked(recs) == LET at == AppendNew(<< >>, recs) IN [n \in DOMAIN at |-> recs[at[n]]]

\* fetch_and_save_all_pr_and_issues when there is no output file yet: the
\* document written to the file
fetch_and_save_all_pr_and_issues(contributors, repo_data, prs, issues) ==
    LET kept == SelectSeq(issues, LAMBDA issue : "pull_request" \notin DOMAIN issue)
    IN  [users |-> Picked([i \in DOMAIN contributors |->
                              format_contributor(contributors[i].contrib,
                                                 contributors[i].user_data)]),
         repositories |-> <<format_repository(repo_data)>>,
         pullRequests |-> Picked([i \in DOMAIN prs |-> format_pull_request(prs[i])]),
         issues |-> Picked([i \in DOMAIN kept |-> format_issue(kept[i])])]

(***************************************************************************)
(* SpecRepo: the document fetched for one repository, with up to           *)
(* MaxRepoRecs pull requests and issues, is imported.                      *)
(***************************************************************************)
MaxRepoRecs == 1

ApiContributors ==
    {<< >>, <<[contrib |-> [id |-> IntV(1), login |-> <<"a", "l">>],
              user_data |-> [name |-> <<"n">>, email |-> None]]>>}

RepoDocs ==
    {fetch_and_save_all_pr_and_issues(contributors, repo_data, prs, issues) :
        contributors \in ApiContributors,
        repo_data \in ApiRepositories,
        prs \in SeqsUpTo({pr \in ApiPullRequests : Get(pr, "body") \in {EmptyStr, <<"F", "i", "x", "e", "s", " ", "#", "3">>}}, MaxRepoRecs)
                \cup {<< >>},
        issues \in SeqsUpTo({issue \in ApiIssues : Get(issue, "body") \in {EmptyStr, <<"F", "i", "x", "e", "s", " ", "#", "3">>}}, MaxRepoRecs)
                   \cup {<< >>}}

NextRepo ==
    \/ \E data \in RepoDocs :
          StartRun([data |-> data, include_all_messages |-> FALSE], FALSE, "ok", 1)
    \/ CreateConstraints({})
    \/ ImportNodes
    \/ CreateRelationships

SpecRepo == Init /\ [][NextRepo]_vars

(***************************************************************************)
(* slack_monitor.py: the poller's additions to the entity store            *)
(***************************************************************************)
\* float(slack_ts) succeeds: digits with at most one point
IsSlackTs(slack_ts) ==
    /\ \A n \in DOMAIN slack_ts : IsDigit(slack_ts[n]) \/ slack_ts[n] = "."
    /\ \E n \in DOMAIN slack_ts : IsDigit(slack_ts[n])
    /\ Cardinality({n \in DOMAIN slack_ts : slack_ts[n] = "."}) <= 1

\* _convert_slack_ts_to_iso: the time is rendered down to the microsecond,
\* the digits below the millisecond are cut off and "Z" is appended.  A
\* timestamp is written here as seconds, a point, one digit of milliseconds
\* and one of microseconds, and the rendering keeps its digits.
convert_slack_ts_to_iso(slack_ts) ==
    IF ~Truthy(slack_ts) \/ ~IsSlackTs(slack_ts) THEN None
    ELSE SubSeq(slack_ts, 1, Len(slack_ts) - 1) \o <<"Z">>

\* the users of the workspace, as users_info answers
SlackDirectory == << <<<<"U", "1">>, <<"a", "l">>>> >>

\* _get_user_info: the name of the user, "unknown" when the lookup fails
get_user_info(user_id, user_cache, api_up) ==
    IF ~Truthy(user_id) THEN <<"U", "n", "k", "n", "o", "w", "n">>
    ELSE IF InPairs(SlackDirectory, user_id) /\ (user_id \in user_cache \/ api_up)
    THEN AtPairs(SlackDirectory, user_id)
    ELSE <<"u", "n", "k", "n", "o", "w", "n">>

\* the user ids that users_info is asked for and answers
LookedUp(message, api_up) ==
    {SlackDirectory[n][1] : n \in {n \in DOMAIN SlackDirectory :
        /\ api_up
        /\ \/ Get(message, "user") = SlackDirectory[n][1]
           \/ /\ Truthy(Get(message, "text"))
              /\ Contains(<<"<", "@">> \o SlackDirectory[n][1] \o <<">">>, message["text"])}}

\* str.replace(old, new)
RECURSIVE Replace(_, _, _)
Replace(str, old, new) ==
    IF Len(str) < Len(old) THEN str
    ELSE IF SubSeq(str, 1, Len(old)) = old
    THEN new \o Replace(SubSeq(str, Len(old) + 1, Len(str)), old, new)
    ELSE <<Head(str)>> \o Replace(Tail(str), old, new)

\* the user ids a text can mention
MentionIds == <<<<"U", "1">>, <<"U", "9">>>>

\* lines 995-1005: every mention <@id> becomes @name
RECURSIVE ReplaceMentions(_, _, _, _)
ReplaceMentions(text, ids, user_cache, api_up) ==
    IF ids = << >> THEN text
    ELSE ReplaceMentions(Replace(text, <<"<", "@">> \o Head(ids) \o <<">">>,
                                 <<"@">> \o get_user_info(Head(ids), user_cache, api_up)),
                         Tail(ids), user_cache, api_up)

\* lines 962-975: the user field becomes the name, the id is kept
UserNamed(message, name) ==
    [f \in DOMAIN message \cup {"user_id", "user_info"} |->
        IF f = "user" THEN name
        ELSE IF f = "user_id" THEN message["user"]
        ELSE IF f = "user_info" THEN DictV(<< <<"name", name>> >>)
        ELSE message[f]]

\* lines 991-1005: the mentions of the text are replaced
MentionsNamed(message, user_cache, api_up) ==
    IF Truthy(Get(message, "text"))
    THEN [message EXCEPT !["text"] = ReplaceMentions(@, MentionIds, user_cache, api_up)]
    ELSE message

\* _process_message_users, in the fields the entity is built from
process_message_users(message, user_cache, api_up) ==
    MentionsNamed(IF Truthy(Get(message, "user"))
                  THEN UserNamed(message, get_user_info(message["user"], user_cache, api_up))
                  ELSE message,
                  user_cache, api_up)

\* a uuid that has not been given out
Uuid(n) == <<"e">> \o DecimalStr(n)

\* lines 223-230 and 586-593: the name the message is stored under
username(processed_msg) ==
    IF "user_info" \in DOMAIN processed_msg
    THEN AtPairs(processed_msg["user_info"][2], "name")
    ELSE IF Truthy(Get(processed_msg, "user_id")) THEN processed_msg["user_id"]
    ELSE GetOr(processed_msg, "user", <<"u", "n", "k", "n", "o", "w", "n">>)

\* lines 232-241 and 595-604: the entity of a processed message
message_entity(processed_msg, channel_id, id) ==
    [id |-> id,
     slackId |-> username(processed_msg),
     channelId |-> channel_id,
     text |-> GetOr(processed_msg, "text", EmptyStr),
     threadTs |-> IF Truthy(Get(processed_msg, "thread_ts"))
                  THEN convert_slack_ts_to_iso(processed_msg["thread_ts"]) ELSE None,
     createdAt |-> convert_slack_ts_to_iso(GetOr(processed_msg, "ts", EmptyStr))]

\* a test on the id in place of the content key
NotStoredById(entity, messages) ==
    \A n \in DOMAIN messages : Get(messages[n], "id") # entity["id"]

\* lines 250-256: `content_key not in existing_content`
NotStored(entity, messages) ==
    \A n \in DOMAIN messages : content_key(messages[n]) # content_key(entity)

\* the elements of seq at the positions of at, in their order
Kept(seq, at) ==
    [k \in 1..Cardinality(at) |->
        seq[CHOOSE n \in at : Cardinality({j \in at : j < n}) = k - 1]]

\* lines 243-256: an entity is appended when its key is not in
\* existing_content, which holds the keys of the stored messages and of the
\* entities of the batch before it
AppendNewContent(messages, entities) ==
    messages \o Kept(entities, {n \in DOMAIN entities :
                        NotStored(entities[n], messages \o SubSeq(entities, 1, n - 1))})

\* lines 219-241: the entities of the batch; uuids counts the uuids given out
Entities(new_messages, channel_id, user_cache, api_up, uuids) ==
    [n \in DOMAIN new_messages |->
        message_entity(process_message_users(new_messages[n], user_cache, api_up),
                       channel_id, Uuid(uuids + n))]

\* self.monitored_channels[channel_id]['name'], as add_channel stored it
channel_name(channel_id) == IF channel_id = <<"C", "1">> THEN <<"g", "e", "n", "e", "r", "a", "l">> ELSE <<"r", "a", "n", "d", "o", "m">>

\* lines 187-202: the channel entity is appended unless it is there
WithChannel(channels, channel_id, uuids) ==
    IF \E n \in DOMAIN channels : channels[n]["slackId"] = channel_id
    THEN channels
    ELSE Append(channels, [id |-> Uuid(uuids + 1), slackId |-> channel_id,
                           name |-> channel_name(channel_id), isPrivate |-> PyFalse])

\* the channels an addition holds before its loop: op is the thread's record
\* of its operation, with the kind of the addition, the batch and the data
ChannelsOf(op, uuids) ==
    IF op.kind = "messages" THEN WithChannel(op.data.channels, op.channel_id, uuids)
    ELSE op.data.channels

\* the entities an addition makes of its batch
EntitiesOf(op, channels, user_cache, uuids) ==
    Entities(op.new_messages, op.channel_id, user_cache, op.api_up,
             uuids + Len(channels) - Len(op.data.channels))

\* the name of the method
OpName(kind) ==
    IF kind = "messages" THEN "_add_messages_to_entity_storage"
    ELSE "_add_thread_replies_to_entity_storage"

\* lines 243-267: the loop appends the entities, the file is saved when a
\* message was added; the call and what it wrote are recorded
SaveAdded(op, channels, entities) ==
    LET messages == AppendNewContent(op.data.messages, entities)
        added_count == Len(messages) - Len(op.data.messages)
    IN  /\ entity_file' = IF added_count > 0 THEN messages ELSE entity_file
        /\ entity_channels' = IF added_count > 0 THEN channels ELSE entity_channels
        /\ monitor' = [monitor EXCEPT
              !.adds = IF inflight.poller.pc = "idle" THEN @ + 1 ELSE @,
              !.uuids = @ + Len(channels) - Len(op.data.channels) + Len(entities),
              !.user_cache = @ \cup UNION {LookedUp(op.new_messages[n], op.api_up) :
                                              n \in DOMAIN op.new_messages},
              !.written = @ \cup {content_key(messages[n]) :
                                     n \in (Len(op.data.messages) + 1)..Len(messages)}]
        /\ call' = [op |-> OpName(op.kind), channel_id |-> op.channel_id,
                    new_messages |-> op.new_messages, loaded |-> op.data.messages,
                    entities |-> entities, added_count |-> added_count]

\* the additions of one run of the poller
MaxAdds == 3

\* the poller thread loads the entity file for an addition
PollerLoad(kind, channel_id, new_messages, api_up) ==
    /\ inflight.poller.pc = "idle"
    /\ monitor.adds < MaxAdds
    /\ inflight' = [inflight EXCEPT !.poller =
                       [pc |-> "loaded", kind |-> kind, channel_id |-> channel_id,
                        new_messages |-> new_messages, api_up |-> api_up,
                        data |-> [messages |-> entity_file, channels |-> entity_channels]]]
    /\ monitor' = [monitor EXCEPT !.adds = @ + 1]
    /\ UNCHANGED <<graphVars, mainVars, call, entity_file, entity_channels>>

\* the poller thread runs the loop on what it loaded and, when a message was
\* added, saves the file
PollerSave ==
    /\ inflight.poller.pc = "loaded"
    /\ SaveAdded(inflight.poller, ChannelsOf(inflight.poller, monitor.uuids),
                 EntitiesOf(inflight.poller, ChannelsOf(inflight.poller, monitor.uuids),
                            monitor.user_cache, monitor.uuids))
    /\ inflight' = [inflight EXCEPT !.poller = Idle]
    /\ UNCHANGED <<graphVars, mainVars>>

\* the record of an addition that has just loaded the file
Loaded(kind, channel_id, new_messages, api_up) ==
    [kind |-> kind, channel_id |-> channel_id, new_messages |-> new_messages,
     api_up |-> api_up, data |-> [messages |-> entity_file, channels |-> entity_channels]]

\* what the addition op does from the load to the save
RunAddition(op) ==
    SaveAdded(op, ChannelsOf(op, monitor.uuids),
              EntitiesOf(op, ChannelsOf(op, monitor.uuids), monitor.user_cache,
                         monitor.uuids))

\* _add_messages_to_entity_storage, from the load to the save with nothing
\* in between
AddMessagesToEntityStorage(channel_id, new_messages, api_up) ==
    /\ inflight.poller.pc = "idle"
    /\ monitor.adds < MaxAdds
    /\ RunAddition(Loaded("messages", channel_id, new_messages, api_up))
    /\ UNCHANGED <<graphVars, mainVars, inflight>>

\* _add_thread_replies_to_entity_storage, likewise
AddThreadRepliesToEntityStorage(channel_id, thread_replies, api_up) ==
    /\ inflight.poller.pc = "idle"
    /\ monitor.adds < MaxAdds
    /\ RunAddition(Loaded("replies", channel_id, thread_replies, api_up))
    /\ UNCHANGED <<graphVars, mainVars, inflight>>

(***************************************************************************)
(* SpecPoll: the poller makes up to MaxAdds additions to the entity store, *)
(* one after another, starting from the empty store.                       *)
(***************************************************************************)
\* messages as the platform sends them: two that differ below the
\* millisecond only and one with a mention
RawA == [ts |-> <<"1", ".", "1", "0">>, text |-> <<"h", "i">>, user |-> <<"U", "1">>]
RawB == [ts |-> <<"1", ".", "1", "1">>, text |-> <<"h", "i">>, user |-> <<"U", "1">>]
RawC == [ts |-> <<"2", ".", "0", "0">>, text |-> <<"<", "@", "U", "1", ">", " ", "y", "o">>, user |-> <<"U", "1">>]

\* a reply in the thread of the first message
RawD == [ts |-> <<"3", ".", "0", "0">>, text |-> <<"r", "e">>, user |-> <<"U", "9">>, thread_ts |-> <<"1", ".", "1", "0">>]

\* the batches of add_channel, check_for_updates and
\* print_all_channel_messages, newest message first, and the lookups of
\* users answering or failing
MessageCalls ==
    {[channel_id |-> <<"C", "1">>, new_messages |-> b, api_up |-> TRUE] :
        b \in {<<RawA>>, <<RawB>>, <<RawC, RawA>>, <<RawC, RawB, RawA>>, <<RawB, RawA>>, << >>}}
    \cup {[channel_id |-> <<"C", "1">>, new_messages |-> <<RawC>>, api_up |-> FALSE],
          [channel_id |-> <<"C", "2">>, new_messages |-> <<RawA>>, api_up |-> TRUE]}

\* the batches of _process_threads and _check_thread_updates
ReplyCalls ==
    {[channel_id |-> <<"C", "1">>, new_messages |-> b, api_up |-> TRUE] :
        b \in {<<RawD>>, <<RawD, RawD>>}}

NextPoll ==
    \/ \E c \in MessageCalls :
          AddMessagesToEntityStorage(c.channel_id, c.new_messages, c.api_up)
    \/ \E c \in ReplyCalls :
          AddThreadRepliesToEntityStorage(c.channel_id, c.new_messages, c.api_up)

SpecPoll == Init /\ [][NextPoll]_vars

(***************************************************************************)
(* SpecRace: the poller runs in a thread of its own (main.py, startup) and *)
(* a request handler calls get_entity_message_data meanwhile.  Neither     *)
(* takes a lock, so the reads and the writes of the entity file of the two *)
(* threads come in any order.                                              *)
(***************************************************************************)
\* lines 276-277: the handler reads the entity file
HandlerRead ==
    /\ inflight.handler.pc = "idle"
    /\ inflight' = [inflight EXCEPT !.handler =
                       [pc |-> "loaded",
                        data |-> [messages |-> entity_file, channels |-> entity_channels]]]
    /\ UNCHANGED <<graphVars, mainVars, call, entity_file, entity_channels, monitor>>

\* lines 279-352: the handler deduplicates and sorts what it read and, when
\* that changed the list, saves the data it holds
HandlerWrite ==
    /\ inflight.handler.pc = "loaded"
    /\ LET data == inflight.handler.data
           unique == unique_messages(data.messages)
           sorted == sorted_messages(unique)
           save == Len(unique) < Len(data.messages) \/ sorted # unique
       IN  /\ call' = [op |-> "get_entity_message_data", loaded |-> data.messages,
                       returned |-> sorted]
           /\ entity_file' = IF save THEN sorted ELSE entity_file
           /\ entity_channels' = IF save THEN data.channels ELSE entity_channels
    /\ inflight' = [inflight EXCEPT !.handler = Idle]
    /\ UNCHANGED <<graphVars, mainVars, monitor>>

\* the additions the poller makes meanwhile: of messages of the channel, and
\* of the reply
RaceCalls ==
    {[kind |-> "messages", new_messages |-> <<RawC, RawA>>],
     [kind |-> "messages", new_messages |-> <<RawB>>],
     [kind |-> "replies", new_messages |-> <<RawD>>]}

NextRace ==
    \/ \E c \in RaceCalls : PollerLoad(c.kind, <<"C", "1">>, c.new_messages, TRUE)
    \/ PollerSave
    \/ HandlerRead
    \/ HandlerWrite

SpecRace == Init /\ [][NextRace]_vars

(***************************************************************************)
(* Properties                                                              *)
(***************************************************************************)

\* C1: running the import twice in sequence on the same input document,
\* without clearing in between, leaves the graph with the same nodes and
\* edges as running it once, and the second run returns the same per-label
\* and per-edge-type counts as the first.
C1_Idempotent ==
    ( /\ pc = "completed"
      /\ prev.valid
      /\ prev.data = main_data
      /\ prev.include_all_messages = args.include_all_messages
      /\ ~args.clear_db )
    => /\ nodes = before.nodes
       /\ edges = before.edges
       /\ node_results = prev.node_results
       /\ rel_results = prev.rel_results

\* a second completed run of DocFull on the graph the first one left
C1_Witness ==
    /\ pc = "completed"
    /\ prev.valid
    /\ prev.data = main_data
    /\ prev.include_all_messages = args.include_all_messages
    /\ ~args.clear_db
    /\ main_data = DocFull
    /\ Len(nodes) = 8
    /\ Len(edges) > 8

\* the properties of a call's map that are not null
NonNull(properties) ==
    [k \in {k \in DOMAIN properties : properties[k] # None} |-> properties[k]]

\* C2 (as claimed): after a second create_node call for a label and id, the
\* stored node's properties are exactly the properties of that call.
C2_LastCallOnly ==
    (call.op = "create_node" /\ call.ok /\ call.existed)
    => NodeProps(nodes, call.label, call.properties["id"]) = NonNull(call.properties)

\* C2 (amended): create_node merges field by field.  After a call, every
\* property the call carries with a value has that value, a property the
\* call carries as null is absent, and a property the call does not carry
\* is as it was before the call.
C2_FieldMerge ==
    (call.op = "create_node" /\ call.ok)
    => LET now == NodeProps(nodes, call.label, call.properties["id"])
           p   == call.properties
       IN  /\ Cardinality(MatchNodes(nodes, call.label, p["id"])) = 1
           /\ \A k \in DOMAIN p :
                 IF p[k] = None THEN k \notin DOMAIN now
                 ELSE k \in DOMAIN now /\ now[k] = p[k]
           /\ \A k \in (DOMAIN now \cup DOMAIN call.before) \ DOMAIN p :
                 /\ k \in DOMAIN now
                 /\ k \in DOMAIN call.before
                 /\ now[k] = call.before[k]

\* a second call that lacks the name the first call set: the name is kept
C2_Witness ==
    /\ call.op = "create_node"
    /\ call.ok
    /\ call.existed
    /\ "name" \in DOMAIN call.before
    /\ "name" \notin DOMAIN call.properties
    /\ "name" \in DOMAIN NodeProps(nodes, call.label, call.properties["id"])

\* C3: there is at most one edge per (from node, to node, relationship
\* type), and a call for a triple that has an edge writes the call's
\* properties on that edge.
C3_OneEdgePerTriple ==
    /\ \A i, j \in DOMAIN edges :
          (/\ edges[i].from = edges[j].from
           /\ edges[i].to = edges[j].to
           /\ edges[i].type = edges[j].type) => i = j
    /\ (call.op = "create_relationship" /\ call.ok)
       => LET es == EdgesBetween(nodes, edges, call.from[1], call.from[2],
                                 call.to[1], call.to[2], call.type)
          IN  /\ Cardinality(es) = 1
              /\ \A j \in es : \A k \in DOMAIN call.properties :
                    call.properties[k] # None
                    => k \in DOMAIN edges[j].props
                       /\ edges[j].props[k] = call.properties[k]

\* a second call for a triple, with a referenceType other than the stored one
C3_Witness ==
    /\ call.op = "create_relationship"
    /\ call.ok
    /\ call.existed
    /\ "referenceType" \in DOMAIN call.before
    /\ "referenceType" \in DOMAIN call.properties
    /\ call.properties["referenceType"] \notin {None, call.before["referenceType"]}

\* C4: a run reaches import_nodes only after this run has created the
\* constraint of every one of the seven labels; up to there, and for good
\* when one creation failed, the run has written no node and no edge and
\* neither import_nodes nor create_relationships has returned a summary.
C4_ConstraintsFirst ==
    /\ pc \in {"import", "relationships", "completed", "crashed"}
       => created = Labels /\ Labels \subseteq constraints
    /\ pc \in {"constraints", "constraints_failed", "import"}
       => /\ nodes = (IF args.clear_db THEN << >> ELSE before.nodes)
          /\ edges = (IF args.clear_db THEN << >> ELSE before.edges)
          /\ node_results = EmptyDict
          /\ rel_results = EmptyDict
    /\ pc = "constraints_failed" => created # Labels

\* a run on DocFull that stopped because one constraint was not created
C4_Witness ==
    /\ pc = "constraints_failed"
    /\ main_data = DocFull
    /\ Cardinality(created) = Cardinality(Labels) - 1
    /\ nodes = before.nodes

\* C5: a run without --clear-db removes nothing: every node, every edge and
\* every property of a node or an edge that was in the graph when the run
\* started is still there.
C5_NothingRemoved ==
    (pc # "idle" /\ ~args.clear_db)
    => /\ \A i \in DOMAIN before.nodes :
             /\ i \in DOMAIN nodes
             /\ nodes[i].label = before.nodes[i].label
             /\ DOMAIN before.nodes[i].props \subseteq DOMAIN nodes[i].props
       /\ \A j \in DOMAIN before.edges :
             /\ j \in DOMAIN edges
             /\ edges[j].from = before.edges[j].from
             /\ edges[j].to = before.edges[j].to
             /\ edges[j].type = before.edges[j].type
             /\ DOMAIN before.edges[j].props \subseteq DOMAIN edges[j].props

\* C10: no REPLIES_TO edge starts and ends at the same Message.
C10_NoSelfReply ==
    \A j \in DOMAIN edges : edges[j].type = "REPLIES_TO" => edges[j].from # edges[j].to

\* a completed run on a message whose threadTs is its own createdAt without
\* the Z, next to another message with the same createdAt
C10_Witness ==
    /\ pc = "completed"
    /\ "slackMessages" \in DOMAIN main_data
    /\ Len(main_data["slackMessages"]) = 2
    /\ LET a == main_data["slackMessages"][1]
           b == main_data["slackMessages"][2]
       IN  /\ a["id"] # b["id"]
           /\ a["createdAt"] = b["createdAt"]
           /\ b["threadTs"] = StripZ(b["createdAt"])
           /\ a["threadTs"] = b["threadTs"]
    /\ Len(edges) = 1

\* two stored records are the same message entity
SameContent(a, b) ==
    /\ a["text"] = b["text"]
    /\ a["channelId"] = b["channelId"]
    /\ a["createdAt"] = b["createdAt"]

\* the list with its records in the order f gives
Permute(list, f) == [i \in DOMAIN list |-> list[f[i]]]

Perms(n) == {f \in [1..n -> 1..n] : \A i, j \in 1..n : f[i] = f[j] => i = j}

\* C6: for a stored list whose records all share one (text, channelId,
\* createdAt) key, the record that deduplication keeps has the same id and
\* the same author handle whatever the order of the list.
C6_OrderIndependent ==
    ( /\ call.op = "get_entity_message_data"
      /\ call.loaded # << >>
      /\ \A i, j \in DOMAIN call.loaded : SameContent(call.loaded[i], call.loaded[j]) )
    => \A f \in Perms(Len(call.loaded)) :
          LET kept == unique_messages(Permute(call.loaded, f))[1]
          IN  /\ kept["id"] = call.returned[1]["id"]
              /\ kept["slackId"] = call.returned[1]["slackId"]

\* an author handle that is a raw user id of the platform
RawId(handle) == handle # << >> /\ handle[1] = "U"

\* C7: of the stored records with one key, the returned one is the first
\* stored among those with a handle that is no raw id, or the first stored
\* of all when every one of them has a raw id.
C7_PreferHandle ==
    call.op = "get_entity_message_data"
    => \A i \in DOMAIN call.loaded :
          LET group == {j \in DOMAIN call.loaded :
                            SameContent(call.loaded[j], call.loaded[i])}
              named == {j \in group : ~RawId(call.loaded[j]["slackId"])}
              best  == IF named # {} THEN named ELSE group
              first == CHOOSE j \in best : \A k \in best : j <= k
          IN  /\ \E r \in DOMAIN call.returned : call.returned[r] = call.loaded[first]
              /\ \A r \in DOMAIN call.returned :
                    SameContent(call.returned[r], call.loaded[i])
                    => call.returned[r] = call.loaded[first]

\* one key stored under a raw id first and under two handles after it: the
\* record of the first handle is the one returned
C7_Witness ==
    /\ call.op = "get_entity_message_data"
    /\ Len(call.loaded) = 3
    /\ \A i \in 2..3 : SameContent(call.loaded[i], call.loaded[1])
    /\ RawId(call.loaded[1]["slackId"])
    /\ ~RawId(call.loaded[2]["slackId"])
    /\ ~RawId(call.loaded[3]["slackId"])
    /\ call.loaded[2]["slackId"] # call.loaded[3]["slackId"]
    /\ Len(call.returned) = 1
    /\ call.returned[1] = call.loaded[2]

\* C8: the returned list has exactly one record for each key of the stored
\* list: every stored key is returned, no key is returned twice, and every
\* returned record is a stored one.
C8_OnePerKey ==
    call.op = "get_entity_message_data"
    => /\ \A i \in DOMAIN call.loaded : \E r \in DOMAIN call.returned :
             SameContent(call.returned[r], call.loaded[i])
       /\ \A r, q \in DOMAIN call.returned :
             SameContent(call.returned[r], call.returned[q]) => r = q
       /\ \A r \in DOMAIN call.returned : \E i \in DOMAIN call.loaded :
             call.returned[r] = call.loaded[i]

\* two records of one key under different handles and ids, and a third that
\* differs from them in the text alone: two records are returned
C8_Witness ==
    /\ call.op = "get_entity_message_data"
    /\ Len(call.loaded) = 3
    /\ \E i, j, k \in DOMAIN call.loaded :
          /\ i # j
          /\ SameContent(call.loaded[i], call.loaded[j])
          /\ call.loaded[i]["slackId"] # call.loaded[j]["slackId"]
          /\ call.loaded[k]["text"] # call.loaded[i]["text"]
          /\ call.loaded[k]["channelId"] = call.loaded[i]["channelId"]
          /\ call.loaded[k]["createdAt"] = call.loaded[i]["createdAt"]
    /\ Len(call.returned) = 2

\* the thread a message belongs to: the one it replies in, or its own
ThreadOf(m) == IF m["threadTs"] # None THEN m["threadTs"] ELSE m["createdAt"]

\* the earliest createdAt among the messages of list in thread t
Earliest(list, t) ==
    CHOOSE c \in {list[i]["createdAt"] : i \in {i \in DOMAIN list : ThreadOf(list[i]) = t}} :
        \A i \in DOMAIN list : ThreadOf(list[i]) = t => ~LessStr(list[i]["createdAt"], c)

\* C9: in the returned list the messages of a thread are next to each
\* other, in ascending order of createdAt, every reply after the message
\* that started its thread, and the threads follow each other in ascending
\* order of their earliest createdAt.
C9_ThreadOrder ==
    call.op = "get_entity_message_data"
    => LET out == call.returned
       IN  /\ \A i, k \in DOMAIN out :
                 (i < k /\ ThreadOf(out[i]) = ThreadOf(out[k]))
                 => /\ \A j \in i..k : ThreadOf(out[j]) = ThreadOf(out[i])
                    /\ ~LessStr(out[k]["createdAt"], out[i]["createdAt"])
           /\ \A i, k \in DOMAIN out :
                 (/\ out[i]["threadTs"] = out[k]["createdAt"]
                  /\ out[i]["createdAt"] # out[k]["createdAt"]
                  /\ ThreadOf(out[k]) = out[k]["createdAt"])
                 => k < i
           /\ \A i, k \in DOMAIN out :
                 (i < k /\ ThreadOf(out[i]) # ThreadOf(out[k]))
                 => ~LessStr(Earliest(out, ThreadOf(out[k])),
                             Earliest(out, ThreadOf(out[i])))

\* the edges of type ty from node (fl, fi) to node (tl, ti) of the graph
GraphEdges(fl, fi, tl, ti, ty) == EdgesBetween(nodes, edges, fl, fi, tl, ti, ty)

\* text holds pat at a place where no digit follows it
HoldsToken(text, pat) ==
    \E i \in 0..(Len(text) - Len(pat)) :
        /\ SubSeq(text, i + 1, i + Len(pat)) = pat
        /\ (i + Len(pat) = Len(text) \/ ~IsDigit(text[i + Len(pat) + 1]))

\* the body says "fixes #n" in some letter case
SaysFixes(body, n) ==
    body # None /\ HoldsToken(Lower(body), <<"f", "i", "x", "e", "s", " ", "#">> \o DecimalStr(n))

\* the body names ticket n
NamesTicket(body, n) == body # None /\ HoldsToken(body, <<"#">> \o DecimalStr(n))

\* C11: when the body of a pull request says "Fixes #N" and a ticket
\* numbered N is in the batch, the run makes one REFERENCES edge from the
\* pull request to that ticket, with referenceType "fixes", and no
\* REFERENCES edge from it to a ticket whose number the body does not name.
C11_FixesReference ==
    (pc = "completed" /\ main_data \in RefDocs)
    => \A i \in DOMAIN main_data["pullRequests"], j \in DOMAIN main_data["issues"] :
          LET pr == main_data["pullRequests"][i]
              issue == main_data["issues"][j]
          IN  SaysFixes(pr["body"], issue["number"][2])
              => /\ \E e \in GraphEdges("PullRequest", pr["id"], "Issue", issue["id"],
                                        "REFERENCES") :
                       /\ "referenceType" \in DOMAIN edges[e].props
                       /\ edges[e].props["referenceType"] = <<"f", "i", "x", "e", "s">>
                 /\ \A k \in DOMAIN main_data["issues"] :
                       LET other == main_data["issues"][k]
                       IN  ~NamesTicket(pr["body"], other["number"][2])
                           => GraphEdges("PullRequest", pr["id"], "Issue", other["id"],
                                         "REFERENCES") = {}

\* the field k of rec names a node with label that is in the graph
Resolves(rec, k, label) ==
    k \in DOMAIN rec /\ rec[k] # None /\ MatchNodes(nodes, label, rec[k]) # {}

\* the edges of type ty that end (into = TRUE) or start at node (label, id)
EdgesAt(label, id, ty, into) ==
    {e \in DOMAIN edges :
        /\ edges[e].type = ty
        /\ (IF into THEN edges[e].to ELSE edges[e].from) \in MatchNodes(nodes, label, id)}

\* the records of collection c of the document whose field k resolves
ResolvedIn(c, k, label) ==
    {i \in DOMAIN main_data[c] : Resolves(main_data[c][i], k, label)}

\* C12: a record whose authorId (repositoryId) is absent, null or names no
\* node gets no AUTHORED (BELONGS_TO) edge and is not counted, the run does
\* not raise, and the records and edge types after it are processed: every
\* record that resolves has its edge, and each count is the number of
\* records that resolve.
C12_SkippedSilently ==
    main_data \in SkipDocs
    => /\ pc # "crashed"
       /\ pc = "completed"
          => /\ \A c \in {"pullRequests", "issues", "slackMessages"} :
                   \A i \in DOMAIN main_data[c] :
                      (EdgesAt(NODE_TYPE_LABELS[c], main_data[c][i]["id"], "AUTHORED", TRUE) # {})
                      <=> Resolves(main_data[c][i], "authorId", "User")
             /\ \A c \in {"pullRequests", "issues"} :
                   \A i \in DOMAIN main_data[c] :
                      (EdgesAt(NODE_TYPE_LABELS[c], main_data[c][i]["id"], "BELONGS_TO", FALSE) # {})
                      <=> Resolves(main_data[c][i], "repositoryId", "Repository")
             /\ rel_results["User-AUTHORED->PullRequest"]
                   = Cardinality(ResolvedIn("pullRequests", "authorId", "User"))
             /\ rel_results["User-AUTHORED->Issue"]
                   = Cardinality(ResolvedIn("issues", "authorId", "User"))
             /\ rel_results["User-AUTHORED->Message"]
                   = Cardinality(ResolvedIn("slackMessages", "authorId", "User"))
             /\ rel_results["PullRequest-BELONGS_TO->Repository"]
                   = Cardinality(ResolvedIn("pullRequests", "repositoryId", "Repository"))
             /\ rel_results["Issue-BELONGS_TO->Repository"]
                   = Cardinality(ResolvedIn("issues", "repositoryId", "Repository"))
             /\ rel_results["TextChunk-CHUNKED_FROM->Source"] = 1

\* a completed run where the pull request names a user that is not there
\* and has a null repositoryId, the issue has no authorId and the message a
\* null one
C12_Witness ==
    /\ pc = "completed"
    /\ main_data \in SkipDocs
    /\ Get(main_data["pullRequests"][1], "authorId") = <<"u", "9">>
    /\ Get(main_data["pullRequests"][1], "repositoryId") = None
    /\ "authorId" \notin DOMAIN main_data["issues"][1]
    /\ Get(main_data["issues"][1], "repositoryId") = <<"r", "9">>
    /\ Get(main_data["slackMessages"][1], "authorId") = None
    /\ Len(edges) = 6

\* C13: a record without id gets no node, every other record of the
\* document gets its node, and the run completes: create_relationships does
\* not raise.
C13_MalformedDropped ==
    /\ pc # "crashed"
    /\ pc \in {"relationships", "completed"}
       => /\ \A n \in DOMAIN nodes : "id" \in DOMAIN nodes[n].props
          /\ \A c \in DOMAIN main_data \cap DOMAIN NODE_TYPE_LABELS :
                \A i \in DOMAIN main_data[c] :
                   (HasId(main_data[c][i]) /\ ~IsJoin(main_data[c][i]))
                   => MatchNodes(nodes, NODE_TYPE_LABELS[c], main_data[c][i]["id"]) # {}

\* the types of the map that have an embedded member
EmbeddedTypes(available) == {available[i][1] : i \in {i \in DOMAIN available : available[i][2] > 0}}

\* the reasons of the three phrase rules
PhraseReasons ==
    {<<"Query specifically asks about issues">>,
     <<"Query asks about code authorship or implementation">>,
     <<"Query asks about discussions or conversations">>}

\* C14: the router returns Issue when Issue has an embedded member and the
\* query holds a reporter phrase; else PullRequest when PullRequest has one
\* and the query holds an authorship phrase; else Message when Message has
\* one and the query holds a discussion phrase; and only when none of the
\* three applies is the result one of keyword scoring or of the fallback.
C14_FirstMatchWins ==
    call.op = "determine_best_node_type"
    => LET query == Lower(call.query_text)
           types == EmbeddedTypes(call.available)
           fires(t, terms) == t \in types /\ \E n \in DOMAIN terms : Contains(terms[n], query)
       IN  IF fires("Issue", issue_terms)
           THEN call.result.node_label = "Issue"
                /\ call.result.reason = <<"Query specifically asks about issues">>
           ELSE IF fires("PullRequest", pullrequest_terms)
           THEN call.result.node_label = "PullRequest"
                /\ call.result.reason = <<"Query asks about code authorship or implementation">>
           ELSE IF fires("Message", message_terms)
           THEN call.result.node_label = "Message"
                /\ call.result.reason = <<"Query asks about discussions or conversations">>
           ELSE call.result.reason \notin PhraseReasons

\* every type has embedded members and the query holds a phrase of each of
\* the three rules: the router returns Issue
C14_Witness ==
    /\ call.op = "determine_best_node_type"
    /\ EmbeddedTypes(call.available) = {"TextChunk", "PullRequest", "Issue", "Message"}
    /\ call.query_text = <<"w", "h", "o", " ", "r", "e", "p", "o", "r", "t", "e", "d", " ", "t", "h", "e", " ", "o", "a", "u", "t", "h", " ", "b", "u", "g", " ", "i", "n", " ", "s", "l", "a", "c", "k">>
    /\ call.result.node_label = "Issue"

\* C15: when TextChunk is the only type with an embedded member, the router
\* returns TextChunk for every query.
C15_TextChunkOnly ==
    (call.op = "determine_best_node_type" /\ EmbeddedTypes(call.available) = {"TextChunk"})
    => /\ call.result.node_label = "TextChunk"
       /\ call.result.index_name = "textchunk_vector_idx"

\* the other three types are in the map with no embedded member, and the
\* query holds phrases and keywords of all of them
C15_Witness ==
    /\ call.op = "determine_best_node_type"
    /\ EmbeddedTypes(call.available) = {"TextChunk"}
    /\ Len(call.available) = 4
    /\ call.query_text = <<"w", "h", "o", " ", "r", "e", "p", "o", "r", "t", "e", "d", " ", "t", "h", "e", " ", "o", "a", "u", "t", "h", " ", "b", "u", "g", " ", "i", "n", " ", "s", "l", "a", "c", "k">>
    /\ call.result.node_label = "TextChunk"

\* C16: when no type of the map has an embedded member, what the router
\* returns is no routing decision: it names none of the types.
C16_NoIndexResult ==
    (call.op = "determine_best_node_type" /\ EmbeddedTypes(call.available) = {})
    => call.result.node_label \notin {"TextChunk", "PullRequest", "Issue", "Message"}

\* the logins of the cross-reference table
TableLogins == {<<"M", "i", "c", "h", "a", "e", "l", "P", "e", "n", "g", "1", "2", "3">>, <<"t", "h", "a", "n", "o", "s", "a", "w">>, <<"Y", "a", "t", "s", "z">>}

\* the slack ids that some user of list has, together with an id and a login
MappedSlackIds(list) ==
    {list[i]["slackId"] : i \in {i \in DOMAIN list :
        /\ "slackId" \in DOMAIN list[i] /\ list[i]["slackId"] \notin {None, EmptyStr}
        /\ "id" \in DOMAIN list[i] /\ list[i]["id"] \notin {None, EmptyStr}
        /\ "githubLogin" \in DOMAIN list[i] /\ list[i]["githubLogin"] \notin {None, EmptyStr}}}

\* C17: the output lists have the length and the order of the input lists;
\* a user whose login is not in the table is returned as it was, and a
\* message whose slackId is missing, null or not mapped is returned as it
\* was, with no authorId and no authorLogin added.
C17_UnmappedUnchanged ==
    call.op = "process_all_nodes"
    => /\ Len(call.out_users) = Len(call.users)
       /\ Len(call.out_messages) = Len(call.messages)
       /\ \A i \in DOMAIN call.users :
             /\ Get(call.out_users[i], "id") = Get(call.users[i], "id")
             /\ ("githubLogin" \notin DOMAIN call.users[i]
                 \/ call.users[i]["githubLogin"] \notin TableLogins)
                => call.out_users[i] = call.users[i]
       /\ \A j \in DOMAIN call.messages :
             /\ call.out_messages[j]["id"] = call.messages[j]["id"]
             /\ ("slackId" \notin DOMAIN call.messages[j]
                 \/ call.messages[j]["slackId"] \notin MappedSlackIds(call.out_users))
                => call.out_messages[j] = call.messages[j]

\* a user with a login outside the table next to one of the table, and a
\* message of an unknown slack id next to one that is enriched
C17_Witness ==
    /\ call.op = "process_all_nodes"
    /\ Len(call.users) = 2
    /\ Get(call.users[1], "githubLogin") = <<"b", "o", "b">>
    /\ Get(call.users[2], "githubLogin") = <<"t", "h", "a", "n", "o", "s", "a", "w">>
    /\ call.out_users[1] = call.users[1]
    /\ call.out_users[2] # call.users[2]
    /\ Len(call.messages) = 2
    /\ Get(call.messages[1], "slackId") = <<"z", "e", "d">>
    /\ "authorId" \notin DOMAIN call.messages[1]
    /\ call.out_messages[1] = call.messages[1]
    /\ "authorLogin" \in DOMAIN call.out_messages[2]

\* C18: every formatted pull request and issue has a body, and the
\* formatted repository a description, that is a string and not null,
\* whether the source lacks the field or carries it as null.
C18_TextNeverNull ==
    /\ call.op \in {"fetch_all_pull_requests", "fetch_all_issues"}
       => \A i \in DOMAIN call.formatted :
             "body" \in DOMAIN call.formatted[i] /\ call.formatted[i]["body"] # None
    /\ call.op = "fetch_repository_info"
       => \A i \in DOMAIN call.formatted :
             /\ "description" \in DOMAIN call.formatted[i]
             /\ call.formatted[i]["description"] # None

\* C19: after a completed run, every message whose threadTs is not null and
\* equals, once the Z is taken off both timestamps, the createdAt of a
\* message with another id has a REPLIES_TO edge to that message.
C19_RepliesCreated ==
    (pc = "completed" /\ "slackMessages" \in DOMAIN main_data)
    => \A i, j \in DOMAIN main_data["slackMessages"] :
          LET reply == main_data["slackMessages"][i]
              parent == main_data["slackMessages"][j]
          IN  (/\ reply["id"] # parent["id"]
               /\ Get(reply, "threadTs") # None
               /\ Get(parent, "createdAt") # None
               /\ StripZ(reply["threadTs"]) = StripZ(parent["createdAt"]))
              => GraphEdges("Message", reply["id"], "Message", parent["id"],
                            "REPLIES_TO") # {}

\* the messages of the document with the id of node n
MessagesOf(n) ==
    {i \in DOMAIN main_data["slackMessages"] :
        main_data["slackMessages"][i]["id"] = nodes[n].props["id"]}

\* C20: every REPLIES_TO edge goes from a reply to a message of the same
\* channel whose createdAt is the reply's threadTs (the Z left aside), and
\* no message has two REPLIES_TO parents.
C20_SameChannelParent ==
    "slackMessages" \in DOMAIN main_data
    => \A e \in DOMAIN edges :
          edges[e].type = "REPLIES_TO"
          => /\ \A i \in MessagesOf(edges[e].from), j \in MessagesOf(edges[e].to) :
                   LET reply == main_data["slackMessages"][i]
                       parent == main_data["slackMessages"][j]
                   IN  /\ Get(reply, "channelId") = Get(parent, "channelId")
                       /\ Get(reply, "threadTs") # None
                       /\ StripZ(reply["threadTs"]) = StripZ(parent["createdAt"])
             /\ \A f \in DOMAIN edges :
                   (edges[f].type = "REPLIES_TO" /\ edges[f].from = edges[e].from)
                   => edges[f].to = edges[e].to

\* the lowered body holds the phrase "fixes #n"
MatchedByFixes(body, n) ==
    body # None /\ Contains(<<"f", "i", "x", "e", "s", " ", "#">> \o DecimalStr(n), Lower(body))

\* C21: a REFERENCES edge from a pull request to ticket N has referenceType
\* "fixes" when the body holds "fixes #N", and "related" when the ticket is
\* matched by another phrase only, whatever else the body says.
C21_TypeFromMatchedPhrase ==
    (pc = "completed" /\ main_data \in RefDocs)
    => \A i \in DOMAIN main_data["pullRequests"], j \in DOMAIN main_data["issues"] :
          LET pr == main_data["pullRequests"][i]
              issue == main_data["issues"][j]
          IN  \A e \in GraphEdges("PullRequest", pr["id"], "Issue", issue["id"], "REFERENCES") :
                 /\ "referenceType" \in DOMAIN edges[e].props
                 /\ edges[e].props["referenceType"] =
                       IF MatchedByFixes(pr["body"], issue["number"][2])
                       THEN <<"f", "i", "x", "e", "s">>
                       ELSE <<"r", "e", "l", "a", "t", "e", "d">>

\* the pull requests and issues of the document, each with its label
Targets ==
    [i \in DOMAIN main_data["pullRequests"] |->
        [label |-> "PullRequest", rec |-> main_data["pullRequests"][i]]]
    \o [i \in DOMAIN main_data["issues"] |->
          [label |-> "Issue", rec |-> main_data["issues"][i]]]

\* both logins are there and are the same
SameLogin(msg, rec) ==
    /\ Truthy(Get(msg, "authorLogin"))
    /\ Get(msg, "authorLogin") = Get(rec, "authorLogin")

\* C22: every REFERENCES_GITHUB and REFERENCES_GITHUB_BY_AUTHOR edge has a
\* referenceType "mention" or "author_context" and an authorMatch that is
\* true or false, true exactly when the message and the target have the
\* same author login.
C22_PropertiesPopulated ==
    (pc = "completed" /\ main_data \in MentionDocs)
    => \A i \in DOMAIN main_data["slackMessages"], t \in DOMAIN Targets :
          LET msg == main_data["slackMessages"][i]
          IN  \A e \in GraphEdges("Message", msg["id"], Targets[t].label,
                                  Targets[t].rec["id"], "REFERENCES_GITHUB")
                       \cup GraphEdges("Message", msg["id"], Targets[t].label,
                                       Targets[t].rec["id"], "REFERENCES_GITHUB_BY_AUTHOR") :
                 /\ "referenceType" \in DOMAIN edges[e].props
                 /\ edges[e].props["referenceType"] \in {<<"m", "e", "n", "t", "i", "o", "n">>, <<"a", "u", "t", "h", "o", "r", "_", "c", "o", "n", "t", "e", "x", "t">>}
                 /\ "authorMatch" \in DOMAIN edges[e].props
                 /\ edges[e].props["authorMatch"] =
                       IF SameLogin(msg, Targets[t].rec) THEN PyTrue ELSE PyFalse

\* the text of the message names the number of the target
Mentions(msg, target) ==
    AnyPattern(IF target.label = "PullRequest" THEN pr_patterns(target.rec["number"])
               ELSE issue_patterns(target.rec["number"]),
               Lower(msg["text"]))

\* C23: after a run, every message with an author login has an
\* author_context edge to every pull request and issue of that login,
\* whatever its text; when the text names the number too, the mention edge
\* between the two is there as well.
C23_AuthorContextAlways ==
    (pc = "completed" /\ main_data \in MentionDocs)
    => \A i \in DOMAIN main_data["slackMessages"], t \in DOMAIN Targets :
          LET msg == main_data["slackMessages"][i]
              by_author == GraphEdges("Message", msg["id"], Targets[t].label,
                                      Targets[t].rec["id"], "REFERENCES_GITHUB_BY_AUTHOR")
              mention == GraphEdges("Message", msg["id"], Targets[t].label,
                                    Targets[t].rec["id"], "REFERENCES_GITHUB")
          IN  SameLogin(msg, Targets[t].rec)
              => /\ \E e \in by_author :
                       /\ "referenceType" \in DOMAIN edges[e].props
                       /\ edges[e].props["referenceType"] = <<"a", "u", "t", "h", "o", "r", "_", "c", "o", "n", "t", "e", "x", "t">>
                 /\ Mentions(msg, Targets[t])
                    => \E e \in mention :
                          /\ "referenceType" \in DOMAIN edges[e].props
                          /\ edges[e].props["referenceType"] = <<"m", "e", "n", "t", "i", "o", "n">>

\* the number of keywords of node_type that the query holds
KeywordHits(node_type, query) ==
    Cardinality({k \in DOMAIN node_type_keywords[node_type] :
                    Contains(node_type_keywords[node_type][k], query)})

\* the places of the map whose type has an embedded member
Live(available) == {i \in DOMAIN available : available[i][2] > 0}

C25_EveryRecordEmbedded ==
    (call.op = "process_all_nodes(data)" /\ call.service_up)
    => /\ DOMAIN call.data \subseteq DOMAIN call.result
       /\ \A c \in {"pullRequests", "issues", "slackMessages", "textChunks"} \cap DOMAIN call.data :
             /\ c \in DOMAIN call.result
             /\ \A i \in DOMAIN call.data[c] :
                   /\ "embedding" \in DOMAIN call.result[c][i]
                   /\ call.embedding_calls[c][i] = 1

\* C27: when some type of the map has an embedded member, the type the
\* router returns is a type of the map with an embedded member, whatever
\* the query.
C27_RoutesToEmbedded ==
    (call.op = "determine_best_node_type" /\ EmbeddedTypes(call.available) # {})
    => call.result.node_label \in EmbeddedTypes(call.available)

\* TextChunk is not in the map, Issue and PullRequest are there without an
\* embedded member, and a query with phrases and keywords of all types goes
\* to Message, the only type with embedded members
C27_Witness ==
    /\ call.op = "determine_best_node_type"
    /\ EmbeddedTypes(call.available) = {"Message"}
    /\ Len(call.available) = 3
    /\ call.query_text = <<"w", "h", "o", " ", "w", "r", "o", "t", "e", " ", "t", "h", "e", " ", "b", "u", "g", " ", "r", "e", "p", "o", "r", "t">>
    /\ call.result.node_label = "Message"

\* C28: in a document fetched for one repository, the repositoryId of every
\* pull request and issue is the id of the repository record, and after the
\* import each of them has a BELONGS_TO edge to the Repository node.
C28_BelongsToRepository ==
    (pc = "completed" /\ main_data \in RepoDocs)
    => \A t \in DOMAIN Targets :
          LET rec == Targets[t].rec
              repository == main_data["repositories"][1]
          IN  Truthy(Get(rec, "repositoryId"))
              => /\ rec["repositoryId"] = repository["id"]
                 /\ GraphEdges(Targets[t].label, rec["id"], "Repository", repository["id"],
                               "BELONGS_TO") # {}

\* C29: a call of get_entity_message_data that follows another call, and so
\* finds the store as that call left it, returns the same list in the same
\* order and leaves the store as it is.
C29_Idempotent ==
    [][call.op = "get_entity_message_data"
       => /\ call'.returned = call.returned
          /\ entity_file' = entity_file]_vars

\* a call on a store of three messages of two threads that is what a call
\* returns: a message, a reply to it, and a later message
C29_Witness ==
    /\ call.op = "get_entity_message_data"
    /\ call.loaded = call.returned
    /\ entity_file = call.returned
    /\ Len(call.returned) = 3
    /\ call.returned[2]["threadTs"] = call.returned[1]["createdAt"]
    /\ call.returned[3]["threadTs"] = None
    /\ call.returned[3]["createdAt"] # call.returned[1]["createdAt"]

\* the addition found every message of its batch in the store
AllStored ==
    \A n \in DOMAIN call.entities : \E i \in DOMAIN call.loaded :
        SameContent(call.entities[n], call.loaded[i])

\* C30: after any series of additions of the poller to the empty store, no
\* two stored messages have the same text, channelId and createdAt; and an
\* addition whose messages are all in the store already adds none and
\* leaves the store as it was.
C30_KeysUniqueAndReaddNoop ==
    /\ \A i, j \in DOMAIN entity_file : SameContent(entity_file[i], entity_file[j]) => i = j
    /\ (call.op \in {"_add_messages_to_entity_storage", "_add_thread_replies_to_entity_storage"}
        /\ AllStored)
       => call.added_count = 0 /\ entity_file = call.loaded

\* a batch of three messages that had all been stored is added once more,
\* to a store of two messages
C30_Witness ==
    /\ call.op = "_add_messages_to_entity_storage"
    /\ Len(call.new_messages) = 3
    /\ Len(call.loaded) = 2
    /\ AllStored
    /\ call.added_count = 0
    /\ Len(entity_file) = 2

\* C26: whatever the order of the reads and writes of the poller thread
\* and of a handler in get_entity_message_data, no message is lost: once
\* both are done, every message the poller saved is in the entity store.
C26_NoMessageLost ==
    (inflight.poller.pc = "idle" /\ inflight.handler.pc = "idle")
    => \A key \in monitor.written :
          \E n \in DOMAIN entity_file :
             <<entity_file[n]["text"], entity_file[n]["channelId"],
               entity_file[n]["createdAt"]>> = key

====
